---- MODULE Spec2Model ----
(***************************************************************************)
(* Incremental synchronisation engine of eae-data-api.                     *)
(*                                                                         *)
(*   WatchSpec : the watch trigger, watch_parquet.py (ParquetHandler):     *)
(*               the watchdog dispatcher thread running the file-event     *)
(*               callbacks, one thread per threading.Timer running         *)
(*               _run_update, the handler's lock, and a clock.             *)
(*   SyncSpec  : the sync orchestrator, update_db.py (build_database,      *)
(*               full_rebuild, incremental_update, load_parquet_file,      *)
(*               remove_file_data, detect_changed_files) over a store of   *)
(*               series / data / processed_files tables.                   *)
(***************************************************************************)
EXTENDS Integers, Sequences, FiniteSets, Bags, TLC

(***************************************************************************)
(* Bounds of the model.                                                    *)
(***************************************************************************)
\* File events delivered to the handler in one behaviour.
MaxEvents == 3
\* The clock stops here (seconds).
MaxTime == 70
\* The clock advances by at most this many seconds in one step.
TickSeconds == 10
\* Invocations of build_database in one behaviour.
MaxRuns == 2
\* Writes and deletions of source files in one behaviour.
MaxEdits == 1
\* Modification times a source file can carry: 1..MaxMtime.
MaxMtime == 2
\* Dates a source file can hold a row for: 1..MaxDate.
MaxDate == 3
\* Characters of a configured root, at most.
MaxRootLen == 2
\* Characters of an event path, at most.
MaxPathLen == 3

(***************************************************************************)
(* Program constants.                                                      *)
(***************************************************************************)
DEBOUNCE_SECONDS == 30
\* self._timer = None
None == 0
\* Keys of LOCAL_DATA_ROOTS the model draws events and syncs for.
Countries == {"cn", "jp"}

VARIABLES
  \* ---- ParquetHandler fields ----
  timer,              \* self._timer: None or the id of a Timer object
  lock,               \* self._lock: who holds it
  changed_countries,  \* self._changed_countries
  updating,           \* self._updating
  \* ---- threads of the watcher ----
  tstate,             \* per Timer object: where its thread is
  deadline,           \* per Timer object: start() time + interval
  countries,          \* per Timer thread: the local `countries` of _run_update
  evPc,               \* the dispatcher thread: "idle" or "cs" (inside the with-block)
  evCountry,          \* the country resolved by the callback in progress
  now,                \* the clock, seconds
  nEvents,            \* events delivered so far
  nTimers,            \* Timer objects constructed so far
  \* ---- history of the watcher ----
  runSeq,             \* per Timer thread: position of its run among the runs begun (0: none)
  runStart,           \* per Timer thread: the time its run began
  runEnd,             \* per Timer thread: the time its run's finally block ran
  queuedDuring,       \* per Timer thread: countries of the events queued while its run was in flight
  nRuns,              \* runs begun so far
  raised,             \* history: the Timers whose run of build_database raised
  burst,              \* the burst of events that began in the Idle state
  \* ---- the source directories ----
  disk,               \* per source file: present, content, mtime
  roots,              \* per country: its directory of LOCAL_DATA_ROOTS exists
  \* ---- the store (OUTPUT_DB) ----
  dbExists,           \* OUTPUT_DB exists and is not empty
  series,             \* table series
  data,               \* table data, a bag of rows
  processed,          \* table processed_files
  nextId,             \* the next AUTOINCREMENT id of series
  ledger,             \* the table processed_files exists
  source_col,         \* the table series has the column source_file
  stats,              \* table stats
  fts,                \* virtual table series_fts
  \* ---- build_database in progress ----
  pc,                 \* "idle", or "work" inside full_rebuild / incremental_update
  mode,               \* "full" or "incremental"
  syncCountries,      \* the argument `countries`, a list
  todo,               \* files still to load: `changed`, or `parquet_files` of a full rebuild
  removed,            \* `removed`: ledger paths still to tear down
  phase,              \* for the head of todo: "teardown" (remove_file_data) or "load"
  conn,               \* the connection build_database opened: "open" or "closed"
  runNo,              \* invocations of build_database so far (the wall clock of last_processed)
  nEdits,             \* writes and deletions of source files so far
  \* ---- history of the sync runs ----
  pre,                \* the store when the current (or last) run began
  inventory,          \* parquet_files of the current (or last) run, as a set
  changedAt,          \* the files detect_changed_files classified changed-or-new
  failed,             \* files whose load raised in the current (or last) run
  worked,             \* files torn down, loaded or recorded in the current (or last) run
  ingested,           \* per file: the mtime at which the current (or last) run loaded it, or None
  prevIngested,       \* `ingested` of the run before
  retry,              \* files whose latest load, in an incremental run, raised
  retryAtStart,       \* `retry` when the current (or last) run began
  snap,               \* per file: content and resulting rows of its latest first-time load
  lastStep,           \* what the latest step of a run did
  removedAt,          \* the ledger paths detect_changed_files reported removed
  okSince,            \* files loaded without error since the last full rebuild and not removed since
  rebuilds,           \* calls of create_indexes and create_stats_table in the current (or last) run
  forced,             \* the current (or last) run is a full rebuild forced by needs_migration
  \* ---- results of single calls ----
  detected,           \* detect_changed_files: the call made and what it returned
  resolved,           \* _on_relevant_change: the roots, the event path, the country found
  listed,             \* get_parquet_files: the directories, the countries asked for, the result
  relevant,           \* is_relevant_parquet: the name of the event path and the answer
  \* ---- the reading process ----
  stats_cache,        \* _stats_cache of sqlite_data_access: None or the dict cached
  got                 \* get_stats: the latest call, what it returned, what the table held

watchVars == <<timer, lock, changed_countries, updating, tstate, deadline, countries,
               evPc, evCountry, now, nEvents, nTimers>>
watchHist == <<runSeq, runStart, runEnd, queuedDuring, nRuns, raised, burst>>

diskVars == <<disk, roots, nEdits>>
storeVars == <<dbExists, series, data, processed, nextId, ledger, source_col, stats, fts>>
runVars == <<pc, conn, mode, syncCountries, todo, removed, phase, runNo>>
syncHist == <<pre, inventory, changedAt, failed, worked, ingested, prevIngested,
              retry, retryAtStart, snap, lastStep, removedAt, okSince, rebuilds, forced>>
syncAll == <<diskVars, storeVars, runVars, syncHist>>
watchAll == <<watchVars, watchHist>>

callVars == <<detected, resolved, listed, relevant, stats_cache, got>>

vars == <<watchAll, syncAll, callVars>>

Timers == 1..MaxEvents

Free == [kind |-> "free", id |-> None]
ByEvent == [kind |-> "event", id |-> None]
ByTimer(t) == [kind |-> "timer", id |-> t]

NoBurst == [open |-> FALSE, countries |-> {}, last |-> 0, runs |-> {}]

(***************************************************************************)
(* threading.Timer                                                         *)
(***************************************************************************)
\* Timer.cancel(): sets the finished event. It stops the timer only while its
\* thread is still in finished.wait(); a thread that already passed the
\* is_set() test calls the function regardless.
Cancel(ts, t) ==
  IF t # None /\ ts[t] = "waiting" THEN [ts EXCEPT ![t] = "cancelled"] ELSE ts

\* threading.Timer(DEBOUNCE_SECONDS, self._run_update); daemon; start()
StartTimer(ts) ==
  /\ nTimers < MaxEvents
  /\ nTimers' = nTimers + 1
  /\ tstate' = [ts EXCEPT ![nTimers + 1] = "waiting"]
  /\ deadline' = [deadline EXCEPT ![nTimers + 1] = now + DEBOUNCE_SECONDS]
  /\ timer' = nTimers + 1

\* A run of build_database is in flight in thread t: from the end of the first
\* critical section of _run_update to the end of its finally block.
InFlight(t) == tstate[t] \in {"running", "finally", "cs2"}

\* The handler's fields read Idle: no timer, no run, nothing pending.
FieldsIdle == timer = None /\ ~updating /\ changed_countries = {}

(***************************************************************************)
(* ParquetHandler._on_relevant_change                                      *)
(***************************************************************************)
\* on_created / on_modified / on_deleted for a relevant file under the root of
\* country c: the callback enters `with self._lock`.
OnEvent(c) ==
  /\ evPc = "idle"
  /\ lock = Free
  /\ nEvents < MaxEvents
  /\ nEvents' = nEvents + 1
  /\ lock' = ByEvent
  /\ evPc' = "cs"
  /\ evCountry' = c
  /\ UNCHANGED <<timer, changed_countries, updating, tstate, deadline, countries,
                 now, nTimers, watchHist>>
  /\ UNCHANGED <<syncAll, callVars>>

\* The body of the with-block, while a run is in progress: queue and return.
EventQueued ==
  /\ evPc = "cs"
  /\ updating
  /\ changed_countries' = changed_countries \cup {evCountry}
  /\ queuedDuring' = [t \in Timers |->
                        IF InFlight(t) THEN queuedDuring[t] \cup {evCountry}
                        ELSE queuedDuring[t]]
  /\ burst' = [burst EXCEPT !.open = FALSE]
  /\ lock' = Free
  /\ evPc' = "idle"
  /\ UNCHANGED <<timer, updating, tstate, deadline, countries, evCountry, now,
                 nEvents, nTimers, runSeq, runStart, runEnd, nRuns, raised>>
  /\ UNCHANGED <<syncAll, callVars>>

\* The body of the with-block otherwise: add the country, cancel the timer
\* if there is one, start a new one.
EventDebounce ==
  /\ evPc = "cs"
  /\ ~updating
  /\ changed_countries' = changed_countries \cup {evCountry}
  /\ StartTimer(Cancel(tstate, timer))
  /\ burst' = IF FieldsIdle
                THEN [open |-> TRUE, countries |-> {evCountry}, last |-> now, runs |-> {}]
              ELSE IF burst.open /\ burst.runs = {} /\ now - burst.last < DEBOUNCE_SECONDS
                THEN [burst EXCEPT !.countries = @ \cup {evCountry}, !.last = now]
              ELSE [burst EXCEPT !.open = FALSE]
  /\ lock' = Free
  /\ evPc' = "idle"
  /\ UNCHANGED <<updating, countries, evCountry, now, nEvents,
                 runSeq, runStart, runEnd, queuedDuring, nRuns, raised>>
  /\ UNCHANGED <<syncAll, callVars>>

(***************************************************************************)
(* ParquetHandler._run_update, run by the thread of Timer t                *)
(***************************************************************************)
\* Timer.run: finished.wait(interval) returned and finished is not set.
TimerFire(t) ==
  /\ tstate[t] = "waiting"
  /\ now >= deadline[t]
  /\ tstate' = [tstate EXCEPT ![t] = "fired"]
  /\ UNCHANGED <<timer, lock, changed_countries, updating, deadline, countries,
                 evPc, evCountry, now, nEvents, nTimers, watchHist>>
  /\ UNCHANGED <<syncAll, callVars>>

\* with self._lock: (first block)
RunAcquire(t) ==
  /\ tstate[t] = "fired"
  /\ lock = Free
  /\ lock' = ByTimer(t)
  /\ tstate' = [tstate EXCEPT ![t] = "cs1"]
  /\ UNCHANGED <<timer, changed_countries, updating, deadline, countries,
                 evPc, evCountry, now, nEvents, nTimers, watchHist>>
  /\ UNCHANGED <<syncAll, callVars>>

\* countries = list(pending); pending.clear(); _timer = None; _updating = True;
\* the lock is released and build_database(countries, rebuild=False) is called.
RunBegin(t) ==
  /\ tstate[t] = "cs1"
  /\ countries' = [countries EXCEPT ![t] = changed_countries]
  /\ changed_countries' = {}
  /\ timer' = None
  /\ updating' = TRUE
  /\ lock' = Free
  /\ tstate' = [tstate EXCEPT ![t] = "running"]
  /\ nRuns' = nRuns + 1
  /\ runSeq' = [runSeq EXCEPT ![t] = nRuns + 1]
  /\ runStart' = [runStart EXCEPT ![t] = now]
  /\ burst' = IF burst.open THEN [burst EXCEPT !.runs = @ \cup {t}] ELSE burst
  /\ UNCHANGED <<deadline, evPc, evCountry, now, nEvents, nTimers, runEnd, queuedDuring,
                 raised>>
  /\ UNCHANGED <<syncAll, callVars>>

\* build_database returns.
RunReturn(t) ==
  /\ tstate[t] = "running"
  /\ tstate' = [tstate EXCEPT ![t] = "finally"]
  /\ UNCHANGED <<timer, lock, changed_countries, updating, deadline, countries,
                 evPc, evCountry, now, nEvents, nTimers, watchHist>>
  /\ UNCHANGED <<syncAll, callVars>>

\* A _run_update without the finally block: the exception ends the thread.
RunRaiseNoFinally(t) ==
  /\ tstate[t] = "running"
  /\ tstate' = [tstate EXCEPT ![t] = "done"]
  /\ raised' = raised \cup {t}
  /\ UNCHANGED <<timer, lock, changed_countries, updating, deadline, countries,
                 evPc, evCountry, now, nEvents, nTimers,
                 runSeq, runStart, runEnd, queuedDuring, nRuns, burst>>
  /\ UNCHANGED <<syncAll, callVars>>

\* build_database raises: the except clause logs, then the finally block runs.
RunRaise(t) ==
  /\ tstate[t] = "running"
  /\ tstate' = [tstate EXCEPT ![t] = "finally"]
  /\ raised' = raised \cup {t}
  /\ UNCHANGED <<timer, lock, changed_countries, updating, deadline, countries,
                 evPc, evCountry, now, nEvents, nTimers,
                 runSeq, runStart, runEnd, queuedDuring, nRuns, burst>>
  /\ UNCHANGED <<syncAll, callVars>>

\* finally: with self._lock:
FinallyAcquire(t) ==
  /\ tstate[t] = "finally"
  /\ lock = Free
  /\ lock' = ByTimer(t)
  /\ tstate' = [tstate EXCEPT ![t] = "cs2"]
  /\ UNCHANGED <<timer, changed_countries, updating, deadline, countries,
                 evPc, evCountry, now, nEvents, nTimers, watchHist>>
  /\ UNCHANGED <<syncAll, callVars>>

\* A finally block that schedules no follow-up run.
FinallyBodyNoFollowUp(t) ==
  /\ tstate[t] = "cs2"
  /\ updating' = FALSE
  /\ tstate' = [tstate EXCEPT ![t] = "done"]
  /\ lock' = Free
  /\ runEnd' = [runEnd EXCEPT ![t] = now]
  /\ UNCHANGED <<timer, deadline, nTimers, changed_countries, countries, evPc, evCountry,
                 now, nEvents, runSeq, runStart, queuedDuring, nRuns, raised, burst>>
  /\ UNCHANGED <<syncAll, callVars>>

\* A finally block that leaves _updating as it is.
FinallyBodyKeepsUpdating(t) ==
  /\ tstate[t] = "cs2"
  /\ updating' = updating
  /\ IF changed_countries # {}
       THEN StartTimer([tstate EXCEPT ![t] = "done"])
       ELSE /\ tstate' = [tstate EXCEPT ![t] = "done"]
            /\ UNCHANGED <<timer, deadline, nTimers>>
  /\ lock' = Free
  /\ runEnd' = [runEnd EXCEPT ![t] = now]
  /\ UNCHANGED <<changed_countries, countries, evPc, evCountry, now, nEvents,
                 runSeq, runStart, queuedDuring, nRuns, raised, burst>>
  /\ UNCHANGED <<syncAll, callVars>>

\* _updating = False; if pending: start a follow-up timer.
FinallyBody(t) ==
  /\ tstate[t] = "cs2"
  /\ updating' = FALSE
  /\ IF changed_countries # {}
       THEN StartTimer([tstate EXCEPT ![t] = "done"])
       ELSE /\ tstate' = [tstate EXCEPT ![t] = "done"]
            /\ UNCHANGED <<timer, deadline, nTimers>>
  /\ lock' = Free
  /\ runEnd' = [runEnd EXCEPT ![t] = now]
  /\ UNCHANGED <<changed_countries, countries, evPc, evCountry, now, nEvents,
                 runSeq, runStart, queuedDuring, nRuns, raised, burst>>
  /\ UNCHANGED <<syncAll, callVars>>

(***************************************************************************)
(* The clock. Acquiring the lock and the bodies of the critical sections   *)
(* take no time; a Timer wakes at its deadline; a run of build_database    *)
(* takes any time.                                                         *)
(***************************************************************************)
Instant == evPc = "cs" \/ \E t \in Timers : tstate[t] \in {"fired", "cs1", "finally", "cs2"}

Waiting == {t \in Timers : tstate[t] = "waiting"}

Tick ==
  /\ ~Instant
  /\ \A t \in Waiting : deadline[t] > now
  /\ \E d \in 1..TickSeconds :
       /\ now + d <= MaxTime
       /\ \A t \in Waiting : now + d <= deadline[t]
       /\ \/ d = TickSeconds
          \/ \E t \in Waiting : now + d = deadline[t]
       /\ now' = now + d
  /\ UNCHANGED <<timer, lock, changed_countries, updating, tstate, deadline, countries,
                 evPc, evCountry, nEvents, nTimers, watchHist>>
  /\ UNCHANGED <<syncAll, callVars>>

WatchFields ==
  /\ timer = None
  /\ lock = Free
  /\ changed_countries = {}
  /\ updating = FALSE
  /\ tstate = [t \in Timers |-> "new"]
  /\ deadline = [t \in Timers |-> 0]
  /\ countries = [t \in Timers |-> {}]
  /\ evPc = "idle"
  /\ evCountry = "cn"
  /\ now = 0
  /\ nEvents = 0
  /\ nTimers = 0
  /\ runSeq = [t \in Timers |-> 0]
  /\ runStart = [t \in Timers |-> 0]
  /\ runEnd = [t \in Timers |-> 0]
  /\ queuedDuring = [t \in Timers |-> {}]
  /\ nRuns = 0
  /\ raised = {}
  /\ burst = NoBurst

WatchNext ==
  \/ \E c \in Countries : OnEvent(c)
  \/ EventQueued
  \/ EventDebounce
  \/ \E t \in Timers : TimerFire(t)
  \/ \E t \in Timers : RunAcquire(t)
  \/ \E t \in Timers : RunBegin(t)
  \/ \E t \in Timers : RunReturn(t)
  \/ \E t \in Timers : RunRaise(t)
  \/ \E t \in Timers : FinallyAcquire(t)
  \/ \E t \in Timers : FinallyBody(t)
  \/ Tick

(***************************************************************************)
(* The source directories and the content of a source file.                *)
(***************************************************************************)
\* Paths of the candidate source files, as sorted(path.glob('*.parquet'))
\* lists them: two monthly files under the cn root, a quarterly one under jp.
SortedFiles == <<"cn/a_m", "cn/b_m", "jp/c_q">>
Files == {SortedFiles[i] : i \in 1..Len(SortedFiles)}

\* The country root a path lies under.
CountryOf(f) == IF f = "jp/c_q" THEN "jp" ELSE "cn"

\* get_frequency: the letter before ".parquet".
FreqOf(f) == IF f = "jp/c_q" THEN "q" ELSE "m"

\* The value columns of a frame, in column order, and the dates of its rows.
NameOrder == <<"X", "Y">>
Names == {NameOrder[i] : i \in 1..Len(NameOrder)}
Dates == 1..MaxDate
Mtimes == 1..MaxMtime

\* A cell of a frame: NaN, or <<v>> for the number v.
NaN == <<>>
AllNaN == [n \in Names |-> [d \in Dates |-> NaN]]

\* X has a value on every date, Y on none.
CX3 == [kind |-> "ok",
        cells |-> [n \in Names |-> [d \in Dates |-> IF n = "X" THEN <<10>> ELSE NaN]]]
\* X has no value on the last date; Y has a value on date 2 only.
CX2Y == [kind |-> "ok",
         cells |-> [n \in Names |-> [d \in Dates |->
                     IF n = "X" THEN (IF d < MaxDate THEN <<20>> ELSE NaN)
                     ELSE (IF d = 2 THEN <<30>> ELSE NaN)]]]
\* Every value is missing.
CAllNull == [kind |-> "ok", cells |-> AllNaN]
\* A frame without a Date column.
CNoDate == [kind |-> "nodate", cells |-> AllNaN]
\* A file pd.read_parquet cannot read.
CCorrupt == [kind |-> "corrupt", cells |-> AllNaN]

Contents == {CX3, CX2Y, CAllNull, CNoDate, CCorrupt}

\* The contents the model writes to each file.
ContentsOf(f) ==
  IF f = "cn/a_m" THEN Contents ELSE IF f = "cn/b_m" THEN {CX3, CX2Y} ELSE {CX3}

Absent == [present |-> FALSE, content |-> CAllNull, mtime |-> None]
OnDisk(c, m) == [present |-> TRUE, content |-> c, mtime |-> m]

(***************************************************************************)
(* The store: the tables series, data and processed_files.                 *)
(***************************************************************************)
Store == [series |-> series, data |-> data, processed |-> processed, nextId |-> nextId,
          ledger |-> ledger, source_col |-> source_col, stats |-> stats, fts |-> fts]

\* No table stats: DROP TABLE IF EXISTS stats.
NoStats == [exists |-> FALSE, total_series |-> 0, total_series_freq |-> 0,
            total_data_points |-> 0, by_country |-> [c \in {} |-> 0],
            by_frequency |-> [q \in {} |-> 0]]

\* No virtual table series_fts: DROP TABLE IF EXISTS series_fts.
NoFts == [exists |-> FALSE, rows |-> {}]

\* full_rebuild's DROP TABLE IF EXISTS of the five tables, then create_tables:
\* series, data and processed_files exist and are empty.
EmptyStore == [series |-> {}, data |-> EmptyBag, processed |-> {}, nextId |-> 1,
               ledger |-> TRUE, source_col |-> TRUE, stats |-> NoStats, fts |-> NoFts]

\* A store written by a version of the program without processed_files: one
\* series with its data rows, no source_file, no ledger table.
LegacyStore ==
  [series |-> {[id |-> 1, name |-> "X", country |-> "cn", frequency |-> "m",
                source_file |-> "", min_date |-> 1, max_date |-> 1, count |-> 1]},
   data |-> SetToBag({[series_id |-> 1, date |-> 1, value |-> 10]}),
   processed |-> {}, nextId |-> 2, ledger |-> FALSE, source_col |-> FALSE,
   stats |-> NoStats, fts |-> NoFts]

SetMin(S) == CHOOSE x \in S : \A y \in S : x <= y
SetMax(S) == CHOOSE x \in S : \A y \in S : x >= y
SeqToSet(q) == {q[i] : i \in 1..Len(q)}

\* DELETE FROM data WHERE series_id IN (ids)
DeleteData(D, ids) ==
  LET keep == {r \in DOMAIN D : r.series_id \notin ids}
  IN  IF keep = {} THEN EmptyBag ELSE [r \in keep |-> D[r]]

\* A remove_file_data without the DELETE FROM data.
RemoveFileDataKeepsData(st, f) ==
  LET series_ids == {s.id : s \in {x \in st.series : x.source_file = f}}
  IN  [st EXCEPT !.series = {s \in @ : s.id \notin series_ids},
                 !.processed = {e \in @ : e.filepath # f}]

\* remove_file_data: the rows of series whose source_file is f, their data
\* rows, and the ledger entry of f.
RemoveFileData(st, f) ==
  LET series_ids == {s.id : s \in {x \in st.series : x.source_file = f}}
  IN  [st EXCEPT !.data = DeleteData(@, series_ids),
                 !.series = {s \in @ : s.id \notin series_ids},
                 !.processed = {e \in @ : e.filepath # f}]

(***************************************************************************)
(* load_parquet_file                                                       *)
(***************************************************************************)
\* df.melt(id_vars=['Date'], ...): one row per (date, column).
Melt(c) == {[name |-> n, date |-> d, value |-> c.cells[n][d]] : n \in Names, d \in Dates}

\* A fillna(0) in place of the dropna: a missing cell becomes the value 0.
DropNaFilled(rows) == {[r EXCEPT !.value = IF @ = NaN THEN <<0>> ELSE @] : r \in rows}

\* df_long.dropna(subset=['value'])
DropNa(rows) == {r \in rows : r.value # NaN}

\* A phase 2 whose count is the size of the whole frame, not of the group.
MetaUngrouped(long, n) ==
  LET grp == {r \in long : r.name = n}
  IN  [min_date |-> SetMin({r.date : r \in grp}),
       max_date |-> SetMax({r.date : r \in grp}),
       count |-> Cardinality(long)]

\* Phase 2: groupby('name').agg(min_date, max_date, count) of one group.
Meta(long, n) ==
  LET grp == {r \in long : r.name = n}
  IN  [min_date |-> SetMin({r.date : r \in grp}),
       max_date |-> SetMax({r.date : r \in grp}),
       count |-> Cardinality(grp)]

ValidCols(long) == {r.name : r \in long}

Rank(n) == CHOOSE i \in 1..Len(NameOrder) : NameOrder[i] = n

\* A phase 3 without the ON CONFLICT clause and without the UNIQUE constraint:
\* every series of the file is inserted under a new id.
UpsertInsertOnly(st, f, long) ==
  LET names == ValidCols(long)
      Row(n) == [id |-> st.nextId + Cardinality({m \in names : Rank(m) < Rank(n)}),
                 name |-> n, country |-> CountryOf(f),
                 frequency |-> FreqOf(f), source_file |-> f,
                 min_date |-> Meta(long, n).min_date,
                 max_date |-> Meta(long, n).max_date,
                 count |-> Meta(long, n).count]
  IN  [st EXCEPT !.series = @ \cup {Row(n) : n \in names},
                 !.nextId = @ + Cardinality(names)]

\* Phase 3: INSERT ... ON CONFLICT(name, frequency) DO UPDATE SET country,
\* source_file, min_date, max_date, count. A new row takes the next id.
Upsert(st, f, long) ==
  LET names == ValidCols(long)
      Same(s, n) == s.name = n /\ s.frequency = FreqOf(f)
      fresh == {n \in names : ~ \E s \in st.series : Same(s, n)}
      IdOf(n) == IF n \in fresh
                   THEN st.nextId + Cardinality({m \in fresh : Rank(m) < Rank(n)})
                   ELSE (CHOOSE s \in st.series : Same(s, n)).id
      Row(n) == [id |-> IdOf(n), name |-> n, country |-> CountryOf(f),
                 frequency |-> FreqOf(f), source_file |-> f,
                 min_date |-> Meta(long, n).min_date,
                 max_date |-> Meta(long, n).max_date,
                 count |-> Meta(long, n).count]
  IN  [st EXCEPT !.series = {s \in @ : ~ \E n \in names : Same(s, n)}
                              \cup {Row(n) : n \in names},
                 !.nextId = @ + Cardinality(fresh)]

\* Phase 4: SELECT name, id FROM series WHERE source_file = ? AND frequency = ?
NameToId(st, f) == {s \in st.series : s.source_file = f /\ s.frequency = FreqOf(f)}

\* A load without phase 5: the data rows of the file's series are kept.
DeleteOldDataSkipped(st, f) == st

\* Phase 5: delete the data rows of every series of this file.
DeleteOldData(st, f) ==
  [st EXCEPT !.data = DeleteData(@, {s.id : s \in NameToId(st, f)})]

\* Phase 6: map each long-form row to its series id and insert it.
InsertData(st, f, long) ==
  LET id(n) == (CHOOSE s \in NameToId(st, f) : s.name = n).id
  IN  [st EXCEPT !.data = @ (+) SetToBag({[series_id |-> id(r.name), date |-> r.date,
                                           value |-> r.value[1]] : r \in long})]

\* Where a load can raise once it has begun to write: nowhere, or in the insert
\* of phase 6 (after the upserts of phase 3 and the deletes of phase 5).
FailPoints == {"none", "insert"}

\* load_parquet_file(conn, filepath, country, frequency, source_file) on a file
\* with content c: the count it returns, whether it raised, and the store it
\* leaves. rollbackWorks: conn.rollback() undoes the writes of the load; under
\* PRAGMA journal_mode=OFF (full_rebuild) the outcome of ROLLBACK is undefined
\* and the writes made so far may stay.
LoadParquetFile(st, f, c, failAt, rollbackWorks) ==
  LET long == DropNa(Melt(c))
      s3 == Upsert(st, f, long)
      s5 == DeleteOldData(s3, f)
      s6 == InsertData(s5, f, long)
      mapped == \A n \in ValidCols(long) : \E s \in NameToId(s3, f) : s.name = n
      Raise(partial) == [count |-> 0, raised |-> TRUE,
                         st |-> IF rollbackWorks THEN st ELSE partial]
  IN  IF c.kind = "corrupt" THEN [count |-> 0, raised |-> TRUE, st |-> st]
      ELSE IF c.kind = "nodate" THEN [count |-> 0, raised |-> FALSE, st |-> st]
      ELSE IF long = {} THEN [count |-> 0, raised |-> FALSE, st |-> st]
      ELSE IF failAt = "insert" \/ ~mapped THEN Raise(s5)
      ELSE [count |-> Cardinality(ValidCols(long)), raised |-> FALSE, st |-> s6]

\* A processed_files row.
Entry(f, mtime, count, clock) ==
  [filepath |-> f, country |-> CountryOf(f), frequency |-> FreqOf(f),
   mtime |-> mtime, series_count |-> count, last_processed |-> clock]

\* A ledger write without the count > 0 condition: an entry after every load.
RecordProcessedAlways(st, f, count, mtime, clock) ==
  [st EXCEPT !.processed = {e \in @ : e.filepath # f}
                           \cup {Entry(f, mtime, count, clock)}]

\* incremental_update, after a load: if count > 0, INSERT INTO processed_files
\* ... ON CONFLICT(filepath) DO UPDATE SET mtime, series_count, last_processed.
RecordProcessed(st, f, count, mtime, clock) ==
  IF count > 0
    THEN [st EXCEPT !.processed = {e \in @ : e.filepath # f}
                                  \cup {Entry(f, mtime, count, clock)}]
    ELSE st

(***************************************************************************)
(* create_indexes, create_stats_table                                      *)
(***************************************************************************)
\* create_indexes: CREATE VIRTUAL TABLE IF NOT EXISTS series_fts ... content=series,
\* then the 'rebuild' command: the index holds the (rowid, name) of every series row.
CreateIndexes(st) ==
  [st EXCEPT !.fts = [exists |-> TRUE, rows |-> {<<x.id, x.name>> : x \in st.series}]]

\* SELECT SUM(count) FROM series ... or 0
RECURSIVE SumCount(_)
SumCount(S) ==
  IF S = {} THEN 0
  ELSE LET x == CHOOSE y \in S : TRUE IN x.count + SumCount(S \ {x})

\* create_stats_table: the table is dropped, created and filled from series.
CreateStatsTable(st) ==
  [st EXCEPT !.stats =
     [exists |-> TRUE,
      total_series |-> Cardinality({x.name : x \in st.series}),
      total_series_freq |-> Cardinality(st.series),
      total_data_points |-> SumCount(st.series),
      by_country |-> [c \in {x.country : x \in st.series} |->
                        Cardinality({x.name : x \in {y \in st.series : y.country = c}})],
      by_frequency |-> [q \in {x.frequency : x \in st.series} |->
                          Cardinality({y \in st.series : y.frequency = q})]]]

(***************************************************************************)
(* get_parquet_files, detect_changed_files, needs_migration                *)
(***************************************************************************)
\* For each country of the list in turn, its files on disk in sorted order.
RECURSIVE GetParquetFiles(_)
GetParquetFiles(cs) ==
  IF cs = <<>> THEN <<>>
  ELSE SelectSeq(SortedFiles, LAMBDA f : CountryOf(f) = Head(cs) /\ roots[Head(cs)]
                                        /\ disk[f].present)
       \o GetParquetFiles(Tail(cs))

\* SELECT filepath, mtime FROM processed_files WHERE country IN (countries)
ProcessedIn(cs) == {e \in processed : e.country \in SeqToSet(cs)}

\* A classification that takes a file for changed only when it is newer than
\* its ledger entry says.
IsChangedNewerOnly(f, cs) ==
  \A e \in ProcessedIn(cs) : e.filepath = f => disk[f].mtime > e.mtime

\* A file is changed-or-new when it has no ledger entry among the selected
\* countries or its mtime differs from the stored one.
IsChanged(f, cs) ==
  \A e \in ProcessedIn(cs) : e.filepath = f => disk[f].mtime # e.mtime

\* detect_changed_files: (changed, unchanged, removed)
DetectChangedFiles(parquet_files, cs) ==
  [changed |-> SelectSeq(parquet_files, LAMBDA f : IsChanged(f, cs)),
   unchanged |-> Cardinality({f \in SeqToSet(parquet_files) : ~IsChanged(f, cs)}),
   removed |-> {e.filepath : e \in ProcessedIn(cs)} \ SeqToSet(parquet_files)]

\* A needs_migration that probes the schema only.
NeedsMigrationSchemaOnly == ~ledger \/ ~source_col

\* needs_migration: the table processed_files is missing, or series lacks the
\* column source_file, or processed_files is empty while series has rows.
NeedsMigration == ~ledger \/ ~source_col \/ (processed = {} /\ series # {})

\* Lists of countries build_database is called with.
CountryLists == {<<"cn">>, <<"jp">>, <<"cn", "jp">>}

(***************************************************************************)
(* History of the sync runs.                                               *)
(***************************************************************************)
\* The rows attributable to file f, without row ids: the series rows whose
\* source_file is f and the data rows they own (with their multiplicity).
RowsOf(st, f) ==
  [series |-> {[name |-> s.name, frequency |-> s.frequency, country |-> s.country,
                source_file |-> s.source_file, min_date |-> s.min_date,
                max_date |-> s.max_date, count |-> s.count] :
               s \in {x \in st.series : x.source_file = f}},
   data |-> {[name |-> p[1].name, frequency |-> p[1].frequency, date |-> p[2].date,
              value |-> p[2].value, copies |-> st.data[p[2]]] :
             p \in {q \in st.series \X DOMAIN st.data :
                      q[1].source_file = f /\ q[1].id = q[2].series_id}}]

NoRows == [series |-> {}, data |-> {}]
NoSnap == [has |-> FALSE, content |-> CAllNull, mtime |-> None, rows |-> NoRows]
NoStep == [kind |-> "none", f |-> "", raised |-> FALSE, reingest |-> FALSE,
           hadPrev |-> FALSE, prev |-> CAllNull, cur |-> CAllNull, dropped |-> {}]
Step(k, f) == [NoStep EXCEPT !.kind = k, !.f = f]

SetStore(st) ==
  /\ series' = st.series
  /\ data' = st.data
  /\ processed' = st.processed
  /\ nextId' = st.nextId
  /\ ledger' = st.ledger
  /\ source_col' = st.source_col
  /\ stats' = st.stats
  /\ fts' = st.fts

\* What a load of f leaves in the history: st is the store after the load and
\* the ledger write, r the result of load_parquet_file.
NoteLoad(f, r, st, incremental) ==
  LET c == disk[f].content
      m == disk[f].mtime
      again == ~r.raised /\ snap[f].has /\ snap[f].content = c /\ snap[f].mtime # m
  IN  /\ failed' = IF r.raised THEN failed \cup {f} ELSE failed
      /\ retry' = IF r.raised THEN (IF incremental THEN retry \cup {f} ELSE retry)
                  ELSE retry \ {f}
      /\ ingested' = IF r.raised THEN ingested ELSE [ingested EXCEPT ![f] = m]
      /\ worked' = worked \cup {f}
      /\ snap' = IF r.raised \/ again THEN snap
                 ELSE [snap EXCEPT ![f] = [has |-> TRUE, content |-> c, mtime |-> m,
                                           rows |-> RowsOf(st, f)]]
      /\ lastStep' = [kind |-> "load", f |-> f, raised |-> r.raised, reingest |-> again,
                      hadPrev |-> snap[f].has, prev |-> snap[f].content, cur |-> c,
                      dropped |-> {}]
      /\ okSince' = IF r.raised THEN okSince ELSE okSince \cup {f}

(***************************************************************************)
(* The source directories change between runs.                             *)
(***************************************************************************)
\* Between two runs the directories change. The directories before the first
\* run are those of the initial state; a change after the last run of the
\* behaviour is seen by no run.
Editable == pc = "idle" /\ nEdits < MaxEdits /\ 0 < runNo /\ runNo < MaxRuns

\* A source file is created or rewritten, with any content and any mtime.
WriteFile(f, c, m) ==
  /\ Editable
  /\ roots[CountryOf(f)]
  /\ c \in ContentsOf(f)
  /\ disk[f] # OnDisk(c, m)
  /\ disk' = [disk EXCEPT ![f] = OnDisk(c, m)]
  /\ nEdits' = nEdits + 1
  /\ UNCHANGED <<roots, storeVars, runVars, syncHist, watchAll, callVars>>

\* A source file is deleted.
DeleteFile(f) ==
  /\ Editable
  /\ disk[f].present
  /\ disk' = [disk EXCEPT ![f] = Absent]
  /\ nEdits' = nEdits + 1
  /\ UNCHANGED <<roots, storeVars, runVars, syncHist, watchAll, callVars>>

\* The directory of a country is removed, with the files in it.
RemoveRoot(c) ==
  /\ Editable
  /\ roots[c]
  /\ roots' = [roots EXCEPT ![c] = FALSE]
  /\ disk' = [f \in Files |-> IF CountryOf(f) = c THEN Absent ELSE disk[f]]
  /\ nEdits' = nEdits + 1
  /\ UNCHANGED <<storeVars, runVars, syncHist, watchAll, callVars>>

\* A source file is renamed within its directory: the old path is gone, the
\* new path holds the same frame under the same mtime.
RenameFile(f, g) ==
  /\ Editable
  /\ disk[f].present
  /\ ~disk[g].present
  /\ CountryOf(f) = CountryOf(g)
  /\ FreqOf(f) = FreqOf(g)
  /\ disk[f].content \in ContentsOf(g)
  /\ disk' = [disk EXCEPT ![f] = Absent, ![g] = disk[f]]
  /\ nEdits' = nEdits + 1
  /\ UNCHANGED <<roots, storeVars, runVars, syncHist, watchAll, callVars>>

(***************************************************************************)
(* build_database                                                          *)
(***************************************************************************)
\* The tables of the store; full_rebuild starts with a DROP TABLE IF EXISTS of each.
Tables == {"data", "series", "processed_files", "stats", "series_fts"}

\* The history at the start of a run.
NoteBegin(files, changed) ==
  /\ pre' = Store
  /\ inventory' = SeqToSet(files)
  /\ changedAt' = SeqToSet(changed)
  /\ failed' = {}
  /\ worked' = {}
  /\ prevIngested' = ingested
  /\ ingested' = [f \in Files |-> None]
  /\ retryAtStart' = retry
  /\ lastStep' = [NoStep EXCEPT !.dropped = IF mode' = "full" THEN Tables ELSE {}]
  /\ UNCHANGED <<retry, snap>>

\* full_rebuild up to its loop: every table is dropped and created again; with
\* no parquet file it returns at once.
FullRebuildBegin(files) ==
  /\ mode' = "full"
  /\ dbExists' = TRUE
  /\ SetStore(EmptyStore)
  /\ todo' = files
  /\ removed' = {}
  /\ phase' = "load"
  /\ pc' = IF files = <<>> THEN "idle" ELSE "work"
  /\ conn' = IF files = <<>> THEN "closed" ELSE "open"
  /\ NoteBegin(files, <<>>)
  /\ removedAt' = {}
  /\ okSince' = {}
  /\ rebuilds' = 0

\* An incremental_update that returns at once when no file is changed or new,
\* whatever was removed.
IncrementalBeginChangedOnly(cs, files) ==
  LET d == DetectChangedFiles(files, cs)
      nothing == files = <<>> \/ d.changed = <<>>
  IN  /\ mode' = "incremental"
      /\ todo' = IF nothing THEN <<>> ELSE d.changed
      /\ removed' = IF nothing THEN {} ELSE d.removed
      /\ phase' = "teardown"
      /\ pc' = IF nothing THEN "idle" ELSE "work"
      /\ conn' = IF nothing THEN "closed" ELSE "open"
      /\ NoteBegin(files, IF files = <<>> THEN <<>> ELSE d.changed)
      /\ removedAt' = IF files = <<>> THEN {} ELSE d.removed
      /\ okSince' = {f \in okSince : CountryOf(f) \in SeqToSet(cs) => disk[f].present}
      /\ rebuilds' = 0
      /\ UNCHANGED storeVars

\* incremental_update up to its loops: it returns at once with no parquet file,
\* and when nothing is changed or removed.
IncrementalBegin(cs, files) ==
  LET d == DetectChangedFiles(files, cs)
      nothing == files = <<>> \/ (d.changed = <<>> /\ d.removed = {})
  IN  /\ mode' = "incremental"
      /\ todo' = IF nothing THEN <<>> ELSE d.changed
      /\ removed' = IF nothing THEN {} ELSE d.removed
      /\ phase' = "teardown"
      /\ pc' = IF nothing THEN "idle" ELSE "work"
      /\ conn' = IF nothing THEN "closed" ELSE "open"
      /\ NoteBegin(files, IF files = <<>> THEN <<>> ELSE d.changed)
      /\ removedAt' = IF files = <<>> THEN {} ELSE d.removed
      /\ okSince' = {f \in okSince : CountryOf(f) \in SeqToSet(cs) => disk[f].present}
      /\ rebuilds' = 0
      /\ UNCHANGED storeVars

\* build_database(countries=cs, rebuild): a full rebuild when asked for, when
\* the store does not exist, or when needs_migration; else an incremental update.
BuildDatabase(cs, rebuild) ==
  /\ pc = "idle"
  /\ runNo < MaxRuns
  /\ runNo' = runNo + 1
  /\ syncCountries' = cs
  /\ forced' = (~rebuild /\ dbExists /\ NeedsMigration)
  /\ IF rebuild \/ ~dbExists \/ NeedsMigration
       THEN FullRebuildBegin(GetParquetFiles(cs))
       ELSE IncrementalBegin(cs, GetParquetFiles(cs))
  /\ UNCHANGED <<diskVars, watchAll, callVars>>

\* incremental_update: for fp in removed: remove_file_data(conn, fp)
RemoveStep(f) ==
  /\ pc = "work"
  /\ mode = "incremental"
  /\ f \in removed
  /\ SetStore(RemoveFileData(Store, f))
  /\ removed' = removed \ {f}
  /\ worked' = worked \cup {f}
  /\ lastStep' = Step("remove", f)
  /\ UNCHANGED <<diskVars, dbExists, pc, conn, mode, syncCountries, todo, phase, runNo,
                 pre, inventory, changedAt, failed, ingested, prevIngested,
                 retry, retryAtStart, snap, removedAt, okSince, rebuilds, forced,
                 watchAll, callVars>>

\* A loop over the changed files that does not wait for the loop over the
\* removed files.
TeardownStepUnordered ==
  /\ pc = "work"
  /\ mode = "incremental"
  /\ todo # <<>>
  /\ phase = "teardown"
  /\ SetStore(RemoveFileData(Store, Head(todo)))
  /\ phase' = "load"
  /\ worked' = worked \cup {Head(todo)}
  /\ lastStep' = Step("teardown", Head(todo))
  /\ UNCHANGED <<diskVars, dbExists, pc, conn, mode, syncCountries, todo, removed, runNo,
                 pre, inventory, changedAt, failed, ingested, prevIngested,
                 retry, retryAtStart, snap, removedAt, okSince, rebuilds, forced,
                 watchAll, callVars>>

\* incremental_update, for the next changed file: remove_file_data(conn, source_file)
TeardownStep ==
  /\ pc = "work"
  /\ mode = "incremental"
  /\ removed = {}
  /\ todo # <<>>
  /\ phase = "teardown"
  /\ SetStore(RemoveFileData(Store, Head(todo)))
  /\ phase' = "load"
  /\ worked' = worked \cup {Head(todo)}
  /\ lastStep' = Step("teardown", Head(todo))
  /\ UNCHANGED <<diskVars, dbExists, pc, conn, mode, syncCountries, todo, removed, runNo,
                 pre, inventory, changedAt, failed, ingested, prevIngested,
                 retry, retryAtStart, snap, removedAt, okSince, rebuilds, forced,
                 watchAll, callVars>>

\* A loop over the changed files that a raising load ends.
LoadStepAborting(failAt) ==
  /\ pc = "work"
  /\ mode = "incremental"
  /\ todo # <<>>
  /\ phase = "load"
  /\ LET f == Head(todo)
         r == LoadParquetFile(Store, f, disk[f].content, failAt, TRUE)
         st == RecordProcessed(r.st, f, r.count, disk[f].mtime, runNo)
     IN  /\ SetStore(st)
         /\ NoteLoad(f, r, st, TRUE)
         /\ todo' = IF r.raised THEN <<>> ELSE Tail(todo)
  /\ phase' = "teardown"
  /\ UNCHANGED <<diskVars, dbExists, pc, conn, mode, syncCountries, removed, runNo,
                 pre, inventory, changedAt, prevIngested, retryAtStart,
                 removedAt, rebuilds, forced, watchAll, callVars>>

\* incremental_update, for the same file: load_parquet_file, then the ledger
\* entry if count > 0. The journal is the WAL: a rollback undoes the load.
LoadStep(failAt) ==
  /\ pc = "work"
  /\ mode = "incremental"
  /\ todo # <<>>
  /\ phase = "load"
  /\ LET f == Head(todo)
         r == LoadParquetFile(Store, f, disk[f].content, failAt, TRUE)
         st == RecordProcessed(r.st, f, r.count, disk[f].mtime, runNo)
     IN  /\ SetStore(st)
         /\ NoteLoad(f, r, st, TRUE)
  /\ todo' = Tail(todo)
  /\ phase' = "teardown"
  /\ UNCHANGED <<diskVars, dbExists, pc, conn, mode, syncCountries, removed, runNo,
                 pre, inventory, changedAt, prevIngested, retryAtStart,
                 removedAt, rebuilds, forced, watchAll, callVars>>

\* full_rebuild, for the next file: load_parquet_file, then a plain INSERT of
\* the ledger entry if count > 0. The journal is OFF.
FullLoadStep(failAt, rollbackWorks) ==
  /\ pc = "work"
  /\ mode = "full"
  /\ todo # <<>>
  /\ LET f == Head(todo)
         r == LoadParquetFile(Store, f, disk[f].content, failAt, rollbackWorks)
         st == IF r.count > 0
                 THEN [r.st EXCEPT !.processed =
                         @ \cup {Entry(f, disk[f].mtime, r.count, runNo)}]
                 ELSE r.st
     IN  /\ SetStore(st)
         /\ NoteLoad(f, r, st, FALSE)
  /\ todo' = Tail(todo)
  /\ UNCHANGED <<diskVars, dbExists, pc, conn, mode, syncCountries, removed, phase, runNo,
                 pre, inventory, changedAt, prevIngested, retryAtStart,
                 removedAt, rebuilds, forced, watchAll, callVars>>

\* The end of full_rebuild and of incremental_update: create_indexes,
\* create_stats_table; build_database closes the connection and returns.
FinishStep ==
  /\ pc = "work"
  /\ removed = {}
  /\ todo = <<>>
  /\ pc' = "idle"
  /\ conn' = "closed"
  /\ SetStore(CreateStatsTable(CreateIndexes(Store)))
  /\ rebuilds' = rebuilds + 1
  /\ lastStep' = [Step("finish", "") EXCEPT !.dropped = {"stats"}]
  /\ UNCHANGED <<diskVars, dbExists, mode, syncCountries, todo, removed, phase, runNo,
                 pre, inventory, changedAt, failed, worked, ingested, prevIngested,
                 retry, retryAtStart, snap, removedAt, okSince, forced, watchAll, callVars>>

(***************************************************************************)
(* Initial states and specifications.                                      *)
(***************************************************************************)
\* No run of build_database yet.
RunFields ==
  /\ pc = "idle"
  /\ conn = "closed"
  /\ mode = "full"
  /\ syncCountries = <<>>
  /\ todo = <<>>
  /\ removed = {}
  /\ phase = "teardown"
  /\ runNo = 0
  /\ nEdits = 0
  /\ pre = EmptyStore
  /\ inventory = {}
  /\ changedAt = {}
  /\ failed = {}
  /\ worked = {}
  /\ ingested = [f \in Files |-> None]
  /\ prevIngested = [f \in Files |-> None]
  /\ retry = {}
  /\ retryAtStart = {}
  /\ snap = [f \in Files |-> NoSnap]
  /\ lastStep = NoStep
  /\ removedAt = {}
  /\ okSince = {}
  /\ rebuilds = 0
  /\ forced = FALSE

\* No single call recorded.
NoDetect == [called |-> FALSE, countries |-> <<>>, files |-> <<>>,
             result |-> [changed |-> <<>>, unchanged |-> 0, removed |-> {}]]

\* No path resolved: country = None.
NoCountry == ""
NoResolve == [called |-> FALSE, roots |-> <<>>, path |-> <<>>, country |-> NoCountry]

NoListing == [called |-> FALSE, countries |-> <<>>, exists |-> [c \in {} |-> FALSE],
              dir |-> [c \in {} |-> {}], result |-> <<>>]

\* No event path tested yet.
NoRelevant == [called |-> FALSE, name |-> <<>>, result |-> FALSE]

\* The dict get_stats returns, read from the rows of the table stats:
\* int(raw[...]) of the text str(...) wrote, json.loads of what json.dumps wrote.
FromTable(t) ==
  [total_series |-> t.total_series, total_series_freq |-> t.total_series_freq,
   total_data_points |-> t.total_data_points, by_country |-> t.by_country,
   by_frequency |-> t.by_frequency]

\* _stats_cache = None
NoCache == [has |-> FALSE, value |-> FromTable(NoStats)]
Cached(v) == [has |-> TRUE, value |-> v]

NoGot == [called |-> FALSE, returned |-> FromTable(NoStats), table |-> FromTable(NoStats),
          settled |-> FALSE]

\* The reading process has just started: nothing cached, no call yet.
NoReader ==
  /\ stats_cache = NoCache
  /\ got = NoGot

NoCalls ==
  /\ detected = NoDetect
  /\ resolved = NoResolve
  /\ listed = NoListing
  /\ NoReader
  /\ relevant = NoRelevant

\* No OUTPUT_DB yet.
NoStore ==
  /\ dbExists = FALSE
  /\ series = {}
  /\ data = EmptyBag
  /\ processed = {}
  /\ nextId = 1
  /\ ledger = FALSE
  /\ source_col = FALSE
  /\ stats = NoStats
  /\ fts = NoFts

\* OUTPUT_DB is a store without the ledger.
LegacyFields ==
  /\ dbExists = TRUE
  /\ series = LegacyStore.series
  /\ data = LegacyStore.data
  /\ processed = LegacyStore.processed
  /\ nextId = LegacyStore.nextId
  /\ ledger = LegacyStore.ledger
  /\ source_col = LegacyStore.source_col
  /\ stats = LegacyStore.stats
  /\ fts = LegacyStore.fts

\* No run of build_database yet, no store.
SyncFields == RunFields /\ NoStore /\ NoCalls

\* The watcher alone, over empty source directories.
WatchInit ==
  /\ WatchFields
  /\ SyncFields
  /\ disk = [f \in Files |-> Absent]
  /\ roots = [c \in Countries |-> TRUE]

WatchSpec == WatchInit /\ [][WatchNext]_vars

\* The scheduling of the watcher: a callback inside its with-block finishes it;
\* a Timer thread whose interval has elapsed runs; a thread waiting for the
\* lock gets it once it stays free; build_database returns; time passes.
WatchFair ==
  /\ WF_vars(EventQueued)
  /\ WF_vars(EventDebounce)
  /\ WF_vars(Tick)
  /\ \A t \in Timers :
       /\ WF_vars(TimerFire(t))
       /\ WF_vars(RunAcquire(t))
       /\ WF_vars(RunBegin(t))
       /\ WF_vars(RunReturn(t))
       /\ WF_vars(FinallyAcquire(t))
       /\ WF_vars(FinallyBody(t))

WatchLiveSpec == WatchSpec /\ WatchFair

\* The sync runs alone: any source files, each with the first mtime.
SyncInit ==
  /\ WatchFields
  /\ RunFields
  /\ NoCalls
  /\ NoStore \/ LegacyFields
  /\ disk \in [Files -> {Absent} \cup {OnDisk(c, 1) : c \in Contents}]
  /\ \A f \in Files : disk[f].present => disk[f].content \in ContentsOf(f)
  /\ roots = [c \in Countries |-> TRUE]

SyncNext ==
  \/ \E f \in Files, c \in Contents, m \in Mtimes : WriteFile(f, c, m)
  \/ \E f \in Files : DeleteFile(f)
  \/ \E f \in Files, g \in Files : RenameFile(f, g)
  \/ \E c \in Countries : RemoveRoot(c)
  \/ \E cs \in CountryLists, rebuild \in BOOLEAN : BuildDatabase(cs, rebuild)
  \/ \E f \in Files : RemoveStep(f)
  \/ TeardownStep
  \/ \E failAt \in FailPoints : LoadStep(failAt)
  \/ \E failAt \in FailPoints, rollbackWorks \in BOOLEAN : FullLoadStep(failAt, rollbackWorks)
  \/ FinishStep

SyncSpec == SyncInit /\ [][SyncNext]_vars

(***************************************************************************)
(* The choice between full rebuild and incremental update, from every kind *)
(* of store.                                                               *)
(***************************************************************************)
\* A store written by a version of the program that had processed_files but
\* not yet the column source_file: one series, one ledger entry.
ColumnlessStore ==
  [LegacyStore EXCEPT !.ledger = TRUE, !.processed = {Entry("cn/a_m", 1, 1, 0)}]

\* No store, a store without the ledger, or one without the column; the three
\* source files exist.
ModeInit ==
  /\ WatchFields
  /\ RunFields
  /\ NoCalls
  /\ \/ NoStore
     \/ LegacyFields
     \/ /\ dbExists = TRUE
        /\ series = ColumnlessStore.series
        /\ data = ColumnlessStore.data
        /\ processed = ColumnlessStore.processed
        /\ nextId = ColumnlessStore.nextId
        /\ ledger = ColumnlessStore.ledger
        /\ source_col = ColumnlessStore.source_col
        /\ stats = ColumnlessStore.stats
        /\ fts = ColumnlessStore.fts
  /\ disk = [f \in Files |-> OnDisk(IF f = "cn/b_m" THEN CX2Y ELSE CX3, 1)]
  /\ roots = [c \in Countries |-> TRUE]

ModeNext ==
  \/ \E f \in Files, c \in {CX3, CX2Y}, m \in Mtimes : WriteFile(f, c, m)
  \/ \E f \in Files : DeleteFile(f)
  \/ \E cs \in CountryLists, rebuild \in BOOLEAN : BuildDatabase(cs, rebuild)
  \/ \E f \in Files : RemoveStep(f)
  \/ TeardownStep
  \/ \E failAt \in FailPoints : LoadStep(failAt)
  \/ \E failAt \in FailPoints, rollbackWorks \in BOOLEAN : FullLoadStep(failAt, rollbackWorks)
  \/ FinishStep

ModeSpec == ModeInit /\ [][ModeNext]_vars

(***************************************************************************)
(* The source files are rewritten while a run is in progress.              *)
(***************************************************************************)
\* Another process rewrites a source file between two steps of a run: after
\* detect_changed_files has read its mtime and before load_parquet_file reads
\* it, or after its ledger entry is written. The new version has a later mtime.
ModifyDuringRun(f, c, m) ==
  /\ pc = "work"
  /\ nEdits < MaxEdits
  /\ disk[f].present
  /\ c \in ContentsOf(f)
  /\ m > disk[f].mtime
  /\ disk' = [disk EXCEPT ![f] = OnDisk(c, m)]
  /\ nEdits' = nEdits + 1
  /\ UNCHANGED <<roots, storeVars, runVars, syncHist, watchAll, callVars>>

\* incremental_update, for a changed file that is rewritten after
\* pd.read_parquet has read it and before the ledger INSERT evaluates
\* filepath.stat().st_mtime: the rows are those of the version read, the mtime
\* of the entry is that of the version now on disk.
LoadStepOverwritten(failAt, c, m) ==
  /\ pc = "work"
  /\ mode = "incremental"
  /\ todo # <<>>
  /\ phase = "load"
  /\ nEdits < MaxEdits
  /\ LET f == Head(todo)
         r == LoadParquetFile(Store, f, disk[f].content, failAt, TRUE)
         st == RecordProcessed(r.st, f, r.count, m, runNo)
     IN  /\ c \in ContentsOf(f)
         /\ m > disk[f].mtime
         /\ disk' = [disk EXCEPT ![f] = OnDisk(c, m)]
         /\ SetStore(st)
         /\ NoteLoad(f, r, st, TRUE)
  /\ nEdits' = nEdits + 1
  /\ todo' = Tail(todo)
  /\ phase' = "teardown"
  /\ UNCHANGED <<roots, dbExists, pc, conn, mode, syncCountries, removed, runNo,
                 pre, inventory, changedAt, prevIngested, retryAtStart,
                 removedAt, rebuilds, forced, watchAll, callVars>>

\* full_rebuild, for a file that is rewritten between pd.read_parquet and the
\* filepath.stat() of the ledger INSERT.
FullLoadStepOverwritten(failAt, rollbackWorks, c, m) ==
  /\ pc = "work"
  /\ mode = "full"
  /\ todo # <<>>
  /\ nEdits < MaxEdits
  /\ LET f == Head(todo)
         r == LoadParquetFile(Store, f, disk[f].content, failAt, rollbackWorks)
         st == IF r.count > 0
                 THEN [r.st EXCEPT !.processed = @ \cup {Entry(f, m, r.count, runNo)}]
                 ELSE r.st
     IN  /\ c \in ContentsOf(f)
         /\ m > disk[f].mtime
         /\ disk' = [disk EXCEPT ![f] = OnDisk(c, m)]
         /\ SetStore(st)
         /\ NoteLoad(f, r, st, FALSE)
  /\ nEdits' = nEdits + 1
  /\ todo' = Tail(todo)
  /\ UNCHANGED <<roots, dbExists, pc, conn, mode, syncCountries, removed, phase, runNo,
                 pre, inventory, changedAt, prevIngested, retryAtStart,
                 removedAt, rebuilds, forced, watchAll, callVars>>

RaceNext ==
  \/ \E f \in Files, c \in {CX3, CX2Y}, m \in Mtimes : ModifyDuringRun(f, c, m)
  \/ \E failAt \in FailPoints, c \in {CX3, CX2Y}, m \in Mtimes :
       LoadStepOverwritten(failAt, c, m)
  \/ \E failAt \in FailPoints, rollbackWorks \in BOOLEAN, c \in {CX3, CX2Y}, m \in Mtimes :
       FullLoadStepOverwritten(failAt, rollbackWorks, c, m)
  \/ \E f \in Files : DeleteFile(f)
  \/ \E cs \in CountryLists, rebuild \in BOOLEAN : BuildDatabase(cs, rebuild)
  \/ \E f \in Files : RemoveStep(f)
  \/ TeardownStep
  \/ \E failAt \in FailPoints : LoadStep(failAt)
  \/ \E failAt \in FailPoints, rollbackWorks \in BOOLEAN : FullLoadStep(failAt, rollbackWorks)
  \/ FinishStep

\* The sync runs over three source files that other processes rewrite while
\* a run is in progress.
RaceSpec == ModeInit /\ [][RaceNext]_vars

(***************************************************************************)
(* The sync runs, with errors that leave build_database.                   *)
(***************************************************************************)
\* A statement outside the try block of load_parquet_file raises (an
\* sqlite3.Error in remove_file_data, in the ledger INSERT, in create_indexes,
\* in create_stats_table or in VACUUM; an OSError of filepath.stat()): the
\* exception leaves full_rebuild or incremental_update and, with no handler
\* and no finally block in build_database, build_database itself. The
\* statement that raised wrote nothing.
Propagate ==
  /\ pc = "work"
  /\ pc' = "idle"
  /\ lastStep' = Step("raise", "")
  /\ UNCHANGED <<diskVars, storeVars, conn, mode, syncCountries, todo, removed, phase,
                 runNo, pre, inventory, changedAt, failed, worked, ingested,
                 prevIngested, retry, retryAtStart, snap, removedAt, okSince,
                 rebuilds, forced, watchAll, callVars>>

FaultNext ==
  \/ SyncNext
  \/ Propagate

FaultSpec == SyncInit /\ [][FaultNext]_vars

(***************************************************************************)
(* The sync runs and a process that reads the stats of the same store.     *)
(***************************************************************************)
\* The fallback of get_stats: the stats computed from the table series.
LiveStats(S) ==
  [total_series |-> Cardinality({x.name : x \in S}),
   total_series_freq |-> Cardinality(S),
   total_data_points |-> SumCount(S),
   by_country |-> [c \in {x.country : x \in S} |->
                     Cardinality({x.name : x \in {y \in S : y.country = c}})],
   by_frequency |-> [q \in {x.frequency : x \in S} |->
                       Cardinality({y \in S : y.frequency = q})]]

\* get_stats(): the cached dict if there is one; else the rows of the table
\* stats, or with no such table the stats computed from series; the result is
\* cached. The call can come at any moment, a sync run in progress or not.
GetStats ==
  /\ dbExists
  /\ LET v == IF stats_cache.has THEN stats_cache.value
              ELSE IF stats.exists THEN FromTable(stats)
              ELSE LiveStats(series)
     IN  /\ stats_cache' = Cached(v)
         /\ got' = [called |-> TRUE, returned |-> v, table |-> FromTable(stats),
                    settled |-> pc = "idle" /\ stats.exists]
  /\ UNCHANGED <<watchAll, syncAll, detected, resolved, listed, relevant>>

\* refresh_database(), between two sync runs: the cache is dropped, the file
\* is deleted and download_database fetches the copy in the bucket, here the
\* copy of the store as it is; when the download fails no file is left.
RefreshDatabase(ok) ==
  /\ pc = "idle"
  /\ dbExists
  /\ stats_cache' = NoCache
  /\ IF ok THEN UNCHANGED storeVars
     ELSE /\ dbExists' = FALSE
          /\ SetStore([EmptyStore EXCEPT !.ledger = FALSE, !.source_col = FALSE])
  /\ UNCHANGED <<diskVars, runVars, syncHist, watchAll, detected, resolved, listed,
                 relevant, got>>

\* The sync runs over every country, with loads that do not raise, the files
\* written or deleted between them, and the reader.
ReadNext ==
  \/ \E f \in Files, c \in {CX3, CX2Y}, m \in Mtimes : WriteFile(f, c, m)
  \/ \E f \in Files : DeleteFile(f)
  \/ \E rebuild \in BOOLEAN : BuildDatabase(<<"cn", "jp">>, rebuild)
  \/ \E f \in Files : RemoveStep(f)
  \/ TeardownStep
  \/ LoadStep("none")
  \/ FullLoadStep("none", TRUE)
  \/ FinishStep
  \/ GetStats
  \/ \E ok \in BOOLEAN : RefreshDatabase(ok)

\* No store yet; the three source files exist, the reader has just started.
ReadInit ==
  /\ WatchFields
  /\ RunFields
  /\ NoCalls
  /\ NoStore
  /\ disk = [f \in Files |-> OnDisk(IF f = "cn/b_m" THEN CX2Y ELSE CX3, 1)]
  /\ roots = [c \in Countries |-> TRUE]

ReadSpec == ReadInit /\ [][ReadNext]_vars

(***************************************************************************)
(* detect_changed_files alone, over any ledger and any directories.        *)
(***************************************************************************)
\* The ledgers: at most one entry per path, with any mtime.
Ledgers ==
  {L \in SUBSET {Entry(f, m, 1, 0) : f \in Files, m \in Mtimes} :
     \A e1 \in L, e2 \in L : e1.filepath = e2.filepath => e1 = e2}

\* A store with a ledger, directories with files of any mtime, no call yet.
DetectInit ==
  /\ WatchFields
  /\ RunFields
  /\ dbExists = TRUE
  /\ series = {}
  /\ data = EmptyBag
  /\ nextId = 1
  /\ ledger = TRUE
  /\ source_col = TRUE
  /\ stats = NoStats
  /\ fts = NoFts
  /\ processed \in Ledgers
  /\ roots \in [Countries -> BOOLEAN]
  /\ disk \in [Files -> {Absent} \cup {OnDisk(CX3, m) : m \in Mtimes}]
  /\ \A f \in Files : disk[f].present => roots[CountryOf(f)]
  /\ detected = NoDetect
  /\ resolved = NoResolve
  /\ listed = NoListing
  /\ NoReader
  /\ relevant = NoRelevant

\* changed, unchanged, removed = detect_changed_files(conn, parquet_files, countries)
\* with parquet_files = get_parquet_files(countries)
Detect(cs) ==
  /\ ~detected.called
  /\ detected' = [called |-> TRUE, countries |-> cs, files |-> GetParquetFiles(cs),
                  result |-> DetectChangedFiles(GetParquetFiles(cs), cs)]
  /\ UNCHANGED <<watchAll, syncAll, resolved, listed, relevant, stats_cache, got>>

DetectNext == \E cs \in CountryLists : Detect(cs)

DetectSpec == DetectInit /\ [][DetectNext]_vars

(***************************************************************************)
(* The country of an event path, over any configured roots.                *)
(***************************************************************************)
\* Strings are sequences of characters.
Chars == {"a", "b"}
RECURSIVE Strings(_)
Strings(n) ==
  IF n = 0 THEN {<<>>}
  ELSE Strings(n - 1) \cup {Append(w, c) : w \in Strings(n - 1), c \in Chars}

\* LOCAL_DATA_ROOTS.items(): two countries in insertion order, with distinct,
\* non-empty roots.
RootConfigs ==
  {<<[country |-> "cn", root |-> r1], [country |-> "jp", root |-> r2]>> :
     r1 \in Strings(MaxRootLen) \ {<<>>},
     r2 \in Strings(MaxRootLen) \ {<<>>}} \
  {cfg \in [1..2 -> [country : {"cn", "jp"}, root : Strings(MaxRootLen)]] :
     cfg[1].root = cfg[2].root}

\* path_str.startswith(root)
StartsWith(path, root) ==
  Len(root) <= Len(path) /\ SubSeq(path, 1, Len(root)) = root

\* for c, root in LOCAL_DATA_ROOTS.items(): if path_str.startswith(root):
\* country = c; break
RECURSIVE CountryOfPath(_, _)
CountryOfPath(items, path) ==
  IF items = <<>> THEN NoCountry
  ELSE IF StartsWith(path, Head(items).root) THEN Head(items).country
  ELSE CountryOfPath(Tail(items), path)

ResolveInit ==
  /\ WatchFields
  /\ RunFields
  /\ NoStore
  /\ detected = NoDetect
  /\ listed = NoListing
  /\ NoReader
  /\ relevant = NoRelevant
  /\ disk = [f \in Files |-> Absent]
  /\ roots = [c \in Countries |-> TRUE]
  /\ resolved \in {[NoResolve EXCEPT !.roots = cfg, !.path = p] :
                     cfg \in RootConfigs, p \in Strings(MaxPathLen)}

\* _on_relevant_change(path), up to `if not country: return`
Resolve ==
  /\ ~resolved.called
  /\ resolved' = [resolved EXCEPT !.called = TRUE,
                                  !.country = CountryOfPath(resolved.roots, resolved.path)]
  /\ UNCHANGED <<watchAll, syncAll, detected, listed, relevant, stats_cache, got>>

ResolveNext == Resolve

ResolveSpec == ResolveInit /\ [][ResolveNext]_vars

(***************************************************************************)
(* get_parquet_files over directories of named files.                      *)
(***************************************************************************)
\* A file name is the sequence of its characters.
Ext == <<".", "p", "a", "r", "q", "u", "e", "t">>
VALID_SUFFIXES == << <<"_", "m">> \o Ext, <<"_", "q">> \o Ext, <<"_", "a">> \o Ext >>
EXCLUDED_PATTERNS == << <<"l", "a", "t", "e", "s", "t">>, <<"r", "e", "c", "e", "n", "t">>,
                        <<"h", "i", "s", "t">>, <<"h", "i", "s", "t", "o", "r", "y">> >>

\* The names a directory can hold.
NameAM == <<"a", "_", "m">> \o Ext
NameBQ == <<"B", "_", "q">> \o Ext
NameBA == <<"b", "_", "a">> \o Ext
NameHist == <<"a", "_", "H", "I", "S", "T", "_", "m">> \o Ext
NameUpperM == <<"b", "_", "M">> \o Ext
NamePlain == <<"a", "m">> \o Ext
NameText == <<"a", "_", "m", ".", "t", "x", "t">>
NameLatest == <<"l", "a", "t", "e", "s", "t", "_", "q">> \o Ext
NamesIn(c) ==
  IF c = "cn" THEN {NameAM, NameBQ, NameBA, NameHist, NameUpperM, NamePlain, NameText}
  ELSE {NameAM, NameLatest}

\* The characters of the names, in the order of their code points.
CodeOrder == <<".", "B", "H", "I", "M", "S", "T", "_", "a", "b", "e", "h", "i", "l",
               "m", "p", "q", "r", "s", "t", "u", "x">>
Code(ch) == CHOOSE i \in 1..Len(CodeOrder) : CodeOrder[i] = ch

\* str.lower()
LowerOf == [B |-> "b", H |-> "h", I |-> "i", M |-> "m", S |-> "s", T |-> "t"]
Lower(name) == [i \in 1..Len(name) |->
                 IF name[i] \in DOMAIN LowerOf THEN LowerOf[name[i]] ELSE name[i]]

\* str.endswith(suffix)
EndsWith(name, suffix) ==
  /\ Len(suffix) <= Len(name)
  /\ SubSeq(name, Len(name) - Len(suffix) + 1, Len(name)) = suffix

\* pattern in name
Contains(name, pattern) ==
  \E i \in 1..(Len(name) - Len(pattern) + 1) :
    SubSeq(name, i, i + Len(pattern) - 1) = pattern

\* suffix.split('.')[0][-1]
FreqLetter(suffix) ==
  LET dot == CHOOSE i \in 1..Len(suffix) :
               suffix[i] = "." /\ \A j \in 1..(i - 1) : suffix[j] # "."
  IN  suffix[dot - 1]

\* get_frequency(filename): the letter of the first suffix the name ends
\* with, or None.
RECURSIVE FirstSuffix(_, _)
FirstSuffix(name, suffixes) ==
  IF suffixes = <<>> THEN ""
  ELSE IF EndsWith(name, Head(suffixes)) THEN FreqLetter(Head(suffixes))
  ELSE FirstSuffix(name, Tail(suffixes))
GetFrequency(name) == FirstSuffix(name, VALID_SUFFIXES)

\* An exclusion test on the name as it is spelled.
IsExcludedCaseSensitive(name) ==
  \E i \in 1..Len(EXCLUDED_PATTERNS) : Contains(name, EXCLUDED_PATTERNS[i])

\* is_excluded(filename)
IsExcluded(name) ==
  \E i \in 1..Len(EXCLUDED_PATTERNS) : Contains(Lower(name), EXCLUDED_PATTERNS[i])

\* The order of two names under sorted(): by code points, a prefix first.
RECURSIVE LexLess(_, _)
LexLess(a, b) ==
  IF a = <<>> THEN b # <<>>
  ELSE IF b = <<>> THEN FALSE
  ELSE IF Head(a) = Head(b) THEN LexLess(Tail(a), Tail(b))
  ELSE Code(Head(a)) < Code(Head(b))

\* sorted(path.glob('*.parquet'))
RECURSIVE Sorted(_)
Sorted(S) ==
  IF S = {} THEN <<>>
  ELSE LET least == CHOOSE x \in S : \A y \in S : x = y \/ LexLess(x, y)
       IN  <<least>> \o Sorted(S \ {least})
Glob(names) == Sorted({n \in names : EndsWith(n, Ext)})

\* The loop over one directory: skip the excluded names and those without a
\* frequency, tag the others.
RECURSIVE Tagged(_, _)
Tagged(paths, c) ==
  IF paths = <<>> THEN <<>>
  ELSE IF IsExcluded(Head(paths)) \/ GetFrequency(Head(paths)) = ""
    THEN Tagged(Tail(paths), c)
  ELSE <<[name |-> Head(paths), country |-> c, frequency |-> GetFrequency(Head(paths))]>>
       \o Tagged(Tail(paths), c)

\* get_parquet_files(countries): a country without a configured root and a
\* root that does not exist are skipped.
RECURSIVE GetParquetFilesIn(_, _, _)
GetParquetFilesIn(cs, exists, dir) ==
  IF cs = <<>> THEN <<>>
  ELSE (IF Head(cs) \notin Countries \/ ~exists[Head(cs)] THEN <<>>
        ELSE Tagged(Glob(dir[Head(cs)]), Head(cs)))
       \o GetParquetFilesIn(Tail(cs), exists, dir)

\* The lists of countries asked for; "xx" has no configured root.
AskedLists == {<<"cn">>, <<"jp">>, <<"cn", "jp">>, <<"jp", "cn">>, <<"xx", "cn">>}

ListInit ==
  /\ WatchFields
  /\ RunFields
  /\ NoStore
  /\ detected = NoDetect
  /\ resolved = NoResolve
  /\ NoReader
  /\ relevant = NoRelevant
  /\ disk = [f \in Files |-> Absent]
  /\ roots = [c \in Countries |-> TRUE]
  /\ listed \in {[NoListing EXCEPT !.countries = cs, !.exists = ex, !.dir = d] :
                   cs \in AskedLists,
                   ex \in [Countries -> BOOLEAN],
                   d \in {x \in [Countries -> SUBSET (NamesIn("cn") \cup NamesIn("jp"))] :
                           \A c \in Countries : x[c] \subseteq NamesIn(c)}}
  /\ \A c \in Countries : ~listed.exists[c] => listed.dir[c] = {}

List ==
  /\ ~listed.called
  /\ listed' = [listed EXCEPT !.called = TRUE,
                              !.result = GetParquetFilesIn(listed.countries, listed.exists,
                                                           listed.dir)]
  /\ UNCHANGED <<watchAll, syncAll, detected, resolved, relevant, stats_cache, got>>

ListNext == List

ListSpec == ListInit /\ [][ListNext]_vars

(***************************************************************************)
(* The watcher's test of an event path.                                    *)
(***************************************************************************)
\* is_relevant_parquet(filepath): the name is lowered, then tested for a valid
\* suffix and for an excluded pattern.
IsRelevantParquet(name) ==
  LET lowered == Lower(name)
  IN  /\ \E i \in 1..Len(VALID_SUFFIXES) : EndsWith(lowered, VALID_SUFFIXES[i])
      /\ ~\E i \in 1..Len(EXCLUDED_PATTERNS) : Contains(lowered, EXCLUDED_PATTERNS[i])

\* An event for a file of any of these names is about to be delivered: a stem,
\* a frequency part in either case or none, an extension or none.
RelevantInit ==
  /\ WatchFields
  /\ RunFields
  /\ NoStore
  /\ detected = NoDetect
  /\ resolved = NoResolve
  /\ listed = NoListing
  /\ NoReader
  /\ disk = [f \in Files |-> Absent]
  /\ roots = [c \in Countries |-> TRUE]
  /\ LET stems == {<<"a">>, <<"b">>, <<"B">>, <<"a", "_", "h", "i", "s", "t">>,
                   <<"a", "_", "H", "I", "S", "T">>, <<"l", "a", "t", "e", "s", "t">>}
         parts == {<<"_", "m">>, <<"_", "M">>, <<"_", "q">>, <<"_", "a">>, <<"_", "b">>,
                   <<"m">>}
         exts == {Ext, <<".", "t", "x", "t">>, <<>>}
     IN  relevant \in {[NoRelevant EXCEPT !.name = s \o p \o e] :
                         s \in stems, p \in parts, e \in exts}

\* on_created, on_modified, on_deleted: is_relevant_parquet(event.src_path)
OnFileEvent ==
  /\ ~relevant.called
  /\ relevant' = [relevant EXCEPT !.called = TRUE,
                                  !.result = IsRelevantParquet(relevant.name)]
  /\ UNCHANGED <<watchAll, syncAll, detected, resolved, listed, stats_cache, got>>

RelevantSpec == RelevantInit /\ [][OnFileEvent]_vars

(***************************************************************************)
(* Claims about the watch trigger.                                         *)
(***************************************************************************)
Running == {t \in Timers : tstate[t] = "running"}

\* C1: at most one invocation of build_database is in progress at any time,
\* under every interleaving of callbacks, timer firings and run completions.
C1_AtMostOneRun == Cardinality(Running) <= 1

\* C2: for a burst of events that starts when the handler is Idle and in which
\* each event arrives less than DEBOUNCE_SECONDS after the previous one,
\* exactly one run is started, DEBOUNCE_SECONDS after the last event of the
\* burst, with exactly the countries of the events of the burst.
C2_DebounceBurst ==
  burst.open =>
    /\ Cardinality(burst.runs) <= 1
    /\ \A t \in burst.runs :
         /\ runStart[t] = burst.last + DEBOUNCE_SECONDS
         /\ countries[t] = burst.countries
    /\ (now > burst.last + DEBOUNCE_SECONDS => burst.runs # {})

\* The run begun right after the run of thread t.
NextRun(t) == {u \in Timers : runSeq[u] = runSeq[t] + 1}

\* C3: an event that arrives during a run starts no run and interrupts none:
\* its country stays queued while the run is in flight, and the run that
\* follows the completed run starts a debounce delay after it and covers
\* every country queued during it.
C3_QueuedFollowUp ==
  \A t \in Timers :
    /\ InFlight(t) => queuedDuring[t] \subseteq changed_countries
    /\ (tstate[t] = "done" /\ queuedDuring[t] # {}) =>
         /\ \A u \in NextRun(t) :
              /\ queuedDuring[t] \subseteq countries[u]
              /\ runStart[u] >= runEnd[t] + DEBOUNCE_SECONDS
         /\ NextRun(t) = {} =>
              /\ queuedDuring[t] \subseteq changed_countries
              /\ \E u \in Timers : tstate[u] \in {"waiting", "fired", "cs1"}

(***************************************************************************)
(* Claims about the sync runs.                                             *)
(***************************************************************************)
\* A run of build_database has returned.
AfterRun == pc = "idle" /\ runNo > 0

HasEntry(st, f) == \E e \in st.processed : e.filepath = f

\* The number of data rows owned by the series with this id.
RECURSIVE Copies(_, _)
Copies(D, rows) ==
  IF rows = {} THEN 0
  ELSE LET r == CHOOSE x \in rows : TRUE IN D[r] + Copies(D, rows \ {r})
DataCount(id) == Copies(data, {r \in DOMAIN data : r.series_id = id})

\* The rows of column n of a frame that hold a value.
RowCount(c, n) == Cardinality({d \in Dates : c.cells[n][d] # NaN})

\* C4: when the load of a changed file raises in an incremental update, the
\* series and data rows of that file are after the run what they were before.
C4_FailedLoadKeepsRows ==
  (AfterRun /\ mode = "incremental") =>
    \A f \in failed : RowsOf(Store, f) = RowsOf(pre, f)

\* C5: when the load of a changed file that has a ledger entry raises in an
\* incremental update, the entry is after the run what it was before.
C5_FailedLoadKeepsLedger ==
  (AfterRun /\ mode = "incremental") =>
    \A f \in failed : \A e \in pre.processed : e.filepath = f => e \in processed

\* The files detect_changed_files would classify changed-or-new in a run for
\* the countries cs started in this state.
ChangedNow(cs) == SeqToSet(DetectChangedFiles(GetParquetFiles(cs), cs).changed)

\* C6: a file whose load raised in an incremental run, if still in the
\* inventory, is classified changed-or-new by the next incremental run for
\* its country.
C6_FailedFileRetried ==
  /\ pc = "idle" =>
       \A f \in retry : \A cs \in CountryLists :
         (disk[f].present /\ CountryOf(f) \in SeqToSet(cs)) => f \in ChangedNow(cs)
  /\ (pc = "work" /\ mode = "incremental") =>
       \A f \in retryAtStart \cap inventory : f \in changedAt

\* An incremental run has returned with the load of a file on disk raised.
C6_Witness ==
  /\ AfterRun
  /\ mode = "incremental"
  /\ \E f \in retry : f \in failed /\ disk[f].present /\ f \in ChangedNow(<<CountryOf(f)>>)

\* C7: a previously ingested file that is no longer in the inventory when a
\* sync for its country runs has, after the run, no series row, no data row
\* and no ledger entry, whatever the inventory.
C7_RemovedFileGone ==
  AfterRun =>
    \A f \in Files :
      (HasEntry(pre, f) /\ f \notin inventory /\ CountryOf(f) \in SeqToSet(syncCountries)) =>
        /\ RowsOf(Store, f) = NoRows
        /\ ~HasEntry(Store, f)

\* C8: a file the previous run ingested (a load that did not raise, zero
\* series included) and whose mtime has not changed is classified unchanged
\* by an incremental run, which does no work for it.
C8_UnchangedNoWork ==
  (pc = "work" /\ mode = "incremental") =>
    \A f \in inventory :
      (prevIngested[f] # None /\ prevIngested[f] = disk[f].mtime) =>
        f \notin changedAt /\ f \notin worked

\* C9: a load of a file whose content is that of its previous load, under
\* another mtime, leaves the series and data rows of the file that the
\* previous load left: no duplicate, no change of a count.
C9_ReingestSameRows ==
  (lastStep.kind = "load" /\ lastStep.reingest) =>
    RowsOf(Store, lastStep.f) = snap[lastStep.f].rows

\* An incremental update has loaded again a file that yields series.
C9_Witness ==
  /\ mode = "incremental"
  /\ lastStep.kind = "load"
  /\ lastStep.reingest
  /\ snap[lastStep.f].rows.series # {}
  /\ RowsOf(Store, lastStep.f) = snap[lastStep.f].rows

\* The columns of the file just loaded that hold fewer rows than in the
\* version loaded before.
Shrunk ==
  IF lastStep.kind = "load" /\ ~lastStep.raised /\ lastStep.hadPrev
    THEN {n \in Names : RowCount(lastStep.cur, n) < RowCount(lastStep.prev, n)}
    ELSE {}

\* C10: after a file is loaded in a version where a series has n rows, fewer
\* than in the version loaded before, the series has exactly n data rows and
\* its count is n (for n = 0 the file has no such series).
C10_ShrinkExact ==
  \A n \in Shrunk :
    LET f == lastStep.f
        k == RowCount(lastStep.cur, n)
        recs == {s \in series : s.name = n /\ s.frequency = FreqOf(f)}
    IN  IF k = 0
          THEN \A s \in recs : s.source_file # f
          ELSE /\ Cardinality(recs) = 1
               /\ \A s \in recs : s.source_file = f /\ s.count = k /\ DataCount(s.id) = k

\* An incremental update has loaded a version with fewer, but some, rows of a series.
C10_Witness ==
  /\ mode = "incremental"
  /\ \E n \in Shrunk :
       /\ RowCount(lastStep.cur, n) > 0
       /\ \E s \in series : s.name = n /\ s.source_file = lastStep.f
                            /\ DataCount(s.id) = RowCount(lastStep.cur, n)

\* C11: an incremental request on a store without the ledger runs as a full
\* rebuild; when it has returned the ledger exists and an incremental request
\* on the resulting store is not forced into a full rebuild again.
C11_MigrationOnce ==
  (forced /\ ~pre.ledger) =>
    /\ mode = "full"
    /\ AfterRun => (ledger /\ ~NeedsMigration)

\* The files whose load the current (or last) run has to attempt.
Batch == IF mode = "full" THEN inventory ELSE changedAt

\* The index and the stats table are those built from the tables of the store.
Rebuilt ==
  /\ fts = CreateIndexes(Store).fts
  /\ stats = CreateStatsTable(Store).stats

\* C12: a load that raises does not end the batch: when the run has returned,
\* every other file of the batch has been loaded, every removed file has been
\* torn down, and the index and the stats table have been rebuilt.
C12_FailureIsolated ==
  (AfterRun /\ failed # {}) =>
    /\ \A f \in Batch \ failed :
         /\ ingested[f] # None
         /\ (\E n \in Names : RowCount(snap[f].content, n) > 0) =>
              \E e \in processed : e.filepath = f /\ e.mtime = ingested[f]
    /\ \A f \in removedAt : RowsOf(Store, f) = NoRows /\ ~HasEntry(Store, f)
    /\ rebuilds = 1
    /\ Rebuilt

\* An incremental update whose first load raised has loaded its second file.
C12_Witness ==
  /\ AfterRun
  /\ mode = "incremental"
  /\ changedAt = {"cn/a_m", "cn/b_m"}
  /\ failed = {"cn/a_m"}
  /\ HasEntry(Store, "cn/b_m")
  /\ RowsOf(Store, "cn/b_m") # NoRows
  /\ Rebuilt

\* The dates of the data rows owned by the series with this id.
DatesOf(id) == {r.date : r \in {x \in DOMAIN data : x.series_id = id}}

\* C13: in every committed state of the store, each series row owns as many
\* data rows as its count says, and its min_date and max_date are the least
\* and the greatest date of those rows.
C13_SeriesMatchesData ==
  \A x \in series :
    /\ DataCount(x.id) = x.count
    /\ DatesOf(x.id) # {}
    /\ x.min_date = SetMin(DatesOf(x.id))
    /\ x.max_date = SetMax(DatesOf(x.id))

\* The rows of file f once the load of its version on disk has returned
\* without error; the rows it has now if that load raises.
NewVersion(f) ==
  LET r == LoadParquetFile(Store, f, disk[f].content, "none", TRUE)
  IN  RowsOf(r.st, f)

\* C14: while an incremental update replaces a file, every committed state
\* shows the rows of the file's previous version or those of its new version:
\* so does the state after the commit of remove_file_data, before the load.
C14_ReaderSeesWholeFile ==
  (pc = "work" /\ mode = "incremental" /\ lastStep.kind = "teardown"
     /\ worked = {lastStep.f}) =>
    \/ RowsOf(Store, lastStep.f) = RowsOf(pre, lastStep.f)
    \/ RowsOf(Store, lastStep.f) = NewVersion(lastStep.f)

\* C15: in every state of the store there is at most one series row per
\* (name, frequency), also when two source files hold the same name under
\* the same frequency and when a file is loaded again.
C15_UniqueNameFrequency ==
  \A x \in series, y \in series :
    (x.name = y.name /\ x.frequency = y.frequency) => x = y

\* Two files of one frequency holding the same column have both been loaded,
\* the second of them in its second version.
C15_Witness ==
  /\ lastStep.kind = "load"
  /\ lastStep.f = "cn/b_m"
  /\ ~lastStep.raised
  /\ lastStep.hadPrev
  /\ ingested["cn/a_m"] # None
  /\ RowCount(snap["cn/a_m"].content, "X") > 0
  /\ RowCount(lastStep.cur, "X") > 0
  /\ Cardinality({x \in series : x.name = "X" /\ x.frequency = "m"}) = 1

\* C16: when a run has returned, a file has a ledger entry if and only if a
\* load of it has returned without error (zero series included) since the
\* last full rebuild and it has not left the inventory since.
C16_LedgerIffIngested ==
  AfterRun => \A f \in Files : HasEntry(Store, f) <=> f \in okSince

\* File g is file f under a new path of the same directory and frequency: f
\* has left the inventory with a ledger entry, g has come without one, and the
\* load of g has returned the frame the latest load of f returned.
RenamedTo(f, g) ==
  /\ CountryOf(f) = CountryOf(g)
  /\ FreqOf(f) = FreqOf(g)
  /\ f \in removedAt
  /\ g \in changedAt
  /\ ~HasEntry(pre, g)
  /\ ingested[g] # None
  /\ snap[f].has
  /\ snap[g].content = snap[f].content

\* The (date, value) pairs of column n of a frame.
ColumnRows(c, n) == {<<d, c.cells[n][d][1]>> : d \in {e \in Dates : c.cells[n][e] # NaN}}

\* C17: in an incremental update every removed file is torn down before the
\* first changed file is torn down or loaded; so after a rename each series
\* of the file exists once, under the new path, with the rows of the new file.
C17_RemovedBeforeChanged ==
  /\ (pc = "work" /\ mode = "incremental" /\ worked \cap changedAt # {}) =>
       /\ removed = {}
       /\ \A f \in removedAt : RowsOf(Store, f) = NoRows /\ ~HasEntry(Store, f)
  /\ (AfterRun /\ mode = "incremental") =>
       \A f \in Files, g \in Files :
         RenamedTo(f, g) =>
           \A n \in {m \in Names : RowCount(snap[g].content, m) > 0} :
             LET recs == {x \in series : x.name = n /\ x.frequency = FreqOf(g)}
             IN  /\ Cardinality(recs) = 1
                 /\ \A x \in recs :
                      /\ x.source_file = g
                      /\ DataCount(x.id) = RowCount(snap[g].content, n)
                      /\ {<<r.date, r.value>> : r \in {y \in DOMAIN data : y.series_id = x.id}}
                           = ColumnRows(snap[g].content, n)

\* An incremental update has torn down the old path of a renamed file and
\* loaded its new path.
C17_Witness ==
  /\ AfterRun
  /\ mode = "incremental"
  /\ RenamedTo("cn/a_m", "cn/b_m")
  /\ RowCount(snap["cn/b_m"].content, "X") > 0
  /\ RowsOf(pre, "cn/a_m") # NoRows
  /\ \E x \in series : x.name = "X" /\ x.source_file = "cn/b_m"

\* C18: an incremental update rebuilds the index and the stats table, once,
\* exactly when detect_changed_files reported a changed, new or removed file,
\* whether or not the loads raised; otherwise it leaves the store as it was.
C18_RebuildIffChanged ==
  (AfterRun /\ mode = "incremental") =>
    IF changedAt # {} \/ removedAt # {}
      THEN rebuilds = 1 /\ Rebuilt
      ELSE rebuilds = 0 /\ Store = pre

\* An incremental update all of whose loads raised has rebuilt the index and
\* the stats table.
C18_Witness ==
  /\ AfterRun
  /\ mode = "incremental"
  /\ changedAt # {}
  /\ failed = changedAt
  /\ rebuilds = 1
  /\ stats.exists

\* C19: when a full rebuild has returned, the index and the stats table exist
\* and are those built from the rebuilt tables, whatever the inventory.
C19_FullRebuildEndsBuilt ==
  (AfterRun /\ mode = "full") =>
    /\ rebuilds = 1
    /\ fts.exists
    /\ stats.exists
    /\ Rebuilt

\* The series rows of a group.
InCountry(c) == {x \in series : x.country = c}
InFrequency(q) == {x \in series : x.frequency = q}

\* C20: when a run that changed the store has returned, the stats table
\* agrees with the tables: the number of series rows, of distinct names, of
\* data rows stored, and of series rows per country and per frequency.
C20_StatsAgree ==
  (AfterRun /\ Store # pre) =>
    /\ stats.exists
    /\ stats.total_series_freq = Cardinality(series)
    /\ stats.total_series = Cardinality({x.name : x \in series})
    /\ stats.total_data_points = BagCardinality(data)
    /\ stats.by_country = [c \in {x.country : x \in series} |-> Cardinality(InCountry(c))]
    /\ stats.by_frequency = [q \in {x.frequency : x \in series} |-> Cardinality(InFrequency(q))]

\* The ledger entries of file f.
EntriesOf(st, f) == {e \in st.processed : e.filepath = f}

\* C21: an incremental update leaves the series rows, the data rows and the
\* ledger entry of every file it classified unchanged as they were, also when
\* a changed file holds a name and frequency that an unchanged file provides.
C21_UnchangedFilesUntouched ==
  (runNo > 0 /\ mode = "incremental") =>
    \A f \in inventory \ changedAt :
      /\ RowsOf(Store, f) = RowsOf(pre, f)
      /\ EntriesOf(Store, f) = EntriesOf(pre, f)

\* The selected countries whose directory is missing.
Skipped == {c \in SeqToSet(syncCountries) : ~roots[c]}

\* C22: a sync run skips a selected country whose directory is missing and
\* goes on with the others: while it runs, the series rows, the data rows and
\* the ledger entries of the skipped country's files stay as they were, and
\* it ends having worked on every changed file.
C22_MissingRootSkipped ==
  (pc = "work" /\ mode = "incremental" /\ Skipped # {}) =>
    /\ \A f \in Files :
         CountryOf(f) \in Skipped =>
           /\ RowsOf(Store, f) = RowsOf(pre, f)
           /\ EntriesOf(Store, f) = EntriesOf(pre, f)
    /\ (removed = {} /\ todo = <<>>) => changedAt \subseteq worked

\* The paths of S that have no ledger entry or one with another mtime.
Differing(S) ==
  {f \in S : \A e \in processed : e.filepath = f => e.mtime # disk[f].mtime}

\* C23: detect_changed_files puts every inventory file in exactly one of
\* changed and unchanged, changed if and only if it has no ledger entry or an
\* entry with another mtime, greater or less; removed is exactly the ledger
\* paths of the selected countries that are not in the inventory.
C23_DetectClassifies ==
  detected.called =>
    LET inv == SeqToSet(detected.files)
        d == detected.result
        sel == SeqToSet(detected.countries)
    IN  /\ SeqToSet(d.changed) = Differing(inv)
        /\ Len(d.changed) = Cardinality(Differing(inv))
        /\ d.unchanged = Cardinality(inv \ Differing(inv))
        /\ d.removed = {e.filepath : e \in {x \in processed : x.country \in sel}} \ inv
        /\ \A f \in d.removed : CountryOf(f) \in sel

\* A call over a file older than its ledger entry says, with an entry of a
\* selected country and one of another country both missing from the directories.
C23_Witness ==
  /\ detected.called
  /\ \E f \in SeqToSet(detected.result.changed) :
       \E e \in processed : e.filepath = f /\ disk[f].mtime < e.mtime
  /\ detected.result.removed # {}
  /\ \E e \in processed : /\ ~disk[e.filepath].present
                          /\ e.country \notin SeqToSet(detected.countries)

\* The items of the configured roots that are a prefix of the path.
Matching(items, path) ==
  {items[i] : i \in {j \in 1..Len(items) : StartsWith(path, items[j].root)}}

\* C24: an event path is mapped to the country whose root is the longest of
\* the configured roots that are a prefix of the path, also when one root is
\* a prefix of another; a path with no such root is ignored.
C24_LongestPrefix ==
  resolved.called =>
    LET m == Matching(resolved.roots, resolved.path)
    IN  IF m = {} THEN resolved.country = NoCountry
        ELSE \E x \in m : /\ \A y \in m : Len(y.root) <= Len(x.root)
                          /\ resolved.country = x.country

\* The dates on which column n of a frame holds a value.
Valued(c, n) == {d \in Dates : c.cells[n][d] # NaN}

\* The data rows of a series, as <<date, value>> pairs.
PointsOf(id) == {<<r.date, r.value>> : r \in {x \in DOMAIN data : x.series_id = id}}

\* C25: after a file is loaded, a column without any value has no series row
\* of the file; a column with values has one, whose min_date, max_date and
\* count are those of the dates that hold a value, and whose data rows are
\* exactly the cells that hold a value: no row for a missing cell, no null.
C25_MissingNeverStored ==
  (lastStep.kind = "load" /\ ~lastStep.raised /\ lastStep.cur.kind = "ok") =>
    \A n \in Names :
      LET f == lastStep.f
          c == lastStep.cur
          recs == {s \in series : s.name = n /\ s.source_file = f}
      IN  IF Valued(c, n) = {}
            THEN recs = {}
            ELSE /\ Cardinality(recs) = 1
                 /\ \A s \in recs :
                      /\ s.min_date = SetMin(Valued(c, n))
                      /\ s.max_date = SetMax(Valued(c, n))
                      /\ s.count = Cardinality(Valued(c, n))
                      /\ PointsOf(s.id) = ColumnRows(c, n)
                      /\ DataCount(s.id) = Cardinality(Valued(c, n))

\* A file has been loaded whose column X lacks the last date and whose column
\* Y has a value on one date only.
C25_Witness ==
  /\ lastStep.kind = "load"
  /\ ~lastStep.raised
  /\ lastStep.cur = CX2Y
  /\ \E s \in series : /\ s.name = "Y" /\ s.source_file = lastStep.f
                       /\ s.min_date = 2 /\ s.max_date = 2 /\ s.count = 1
  /\ \E s \in series : /\ s.name = "X" /\ s.source_file = lastStep.f
                       /\ s.max_date = MaxDate - 1

\* C26: no thread holds the handler's lock while it executes build_database,
\* and a callback that is in its critical section while a run executes only
\* adds its country to the pending set and returns: it arms no timer, cancels
\* none and changes no other field of the handler.
C26_CallbackOnlyQueues ==
  /\ [](\A t \in Running : lock # ByTimer(t))
  /\ [][(evPc = "cs" /\ evPc' = "idle" /\ Running # {}) =>
          /\ changed_countries' = changed_countries \cup {evCountry}
          /\ timer' = timer
          /\ tstate' = tstate
          /\ nTimers' = nTimers
          /\ updating' = updating
          /\ lock' = Free]_vars

\* The behaviour has run into the bounds of the model: a thread is about to
\* start one Timer more than MaxEvents, or a Timer is armed for a time after
\* MaxTime.
Horizon ==
  \/ /\ nTimers = MaxEvents
     /\ \/ evPc = "cs" /\ ~updating
        \/ \E t \in Timers : tstate[t] = "cs2" /\ changed_countries # {}
  \/ \E t \in Waiting : deadline[t] > MaxTime

\* No callback in its critical section, no Timer armed or running its function.
Quiet == evPc = "idle" /\ \A t \in Timers : tstate[t] \in {"new", "cancelled", "done"}

\* C27: once the events have stopped, with every run returning, the handler
\* reaches Idle and stays there: _updating false, no Timer armed, nothing
\* pending.
C27_EventuallyIdle == <>[]Horizon \/ <>[](FieldsIdle /\ Quiet)

\* Every event has arrived, one of them was queued during a run, and the
\* handler is Idle after the follow-up run.
C27_Witness ==
  /\ nEvents = MaxEvents
  /\ FieldsIdle
  /\ Quiet
  /\ ~Horizon
  /\ \E t \in Timers : /\ tstate[t] = "done" /\ queuedDuring[t] # {}
                       /\ \E u \in NextRun(t) : tstate[u] = "done"

\* C28: whenever build_database has ended, by a return or by an error raised
\* from full_rebuild or incremental_update, the connection it opened is closed.
C28_ConnectionClosed == pc = "idle" => conn = "closed"

\* The names of a directory that end in a recognized suffix and contain no
\* exclusion pattern, whatever the case of their letters.
Wanted(names) ==
  {n \in names :
     /\ \E i \in 1..Len(VALID_SUFFIXES) : EndsWith(n, VALID_SUFFIXES[i])
     /\ \A i \in 1..Len(EXCLUDED_PATTERNS) : ~Contains(Lower(n), EXCLUDED_PATTERNS[i])}

\* C29: get_parquet_files returns exactly the wanted names of every country
\* asked for whose root exists, each once, tagged with its country and with
\* the letter of its suffix, the names of one country in lexical order.
C29_InventoryExact ==
  listed.called =>
    LET res == listed.result
        sel == {c \in SeqToSet(listed.countries) \cap Countries : listed.exists[c]}
    IN  /\ \A i \in 1..Len(res) :
             /\ res[i].country \in sel
             /\ res[i].name \in Wanted(listed.dir[res[i].country])
             /\ res[i].frequency \in {"m", "q", "a"}
             /\ EndsWith(res[i].name, <<"_", res[i].frequency>> \o Ext)
        /\ \A c \in sel : \A n \in Wanted(listed.dir[c]) :
             Cardinality({i \in 1..Len(res) : res[i].country = c /\ res[i].name = n}) = 1
        /\ \A i \in 1..Len(res) : \A j \in 1..Len(res) :
             (i < j /\ res[i].country = res[j].country) => LexLess(res[i].name, res[j].name)

\* Both countries were asked for and the root of jp is missing; the directory
\* of cn holds an excluded name in capitals and a name with a suffix in
\* capitals, and the three files returned begin with the capital B.
C29_Witness ==
  /\ listed.called
  /\ listed.countries = <<"jp", "cn">>
  /\ ~listed.exists["jp"]
  /\ {NameHist, NameUpperM, NamePlain} \subseteq listed.dir["cn"]
  /\ Len(listed.result) = 3
  /\ listed.result[1].name = NameBQ
  /\ listed.result[1].frequency = "q"

\* C30: the cache does not outlive a completion of create_stats_table: a
\* get_stats call made when a sync run has built the table stats and no run
\* is in progress returns what the table holds.
C30_StatsNotStale == (got.called /\ got.settled) => got.returned = got.table

\* The store conditions under which the claim has build_database rebuild.
MustRebuild ==
  \/ ~dbExists
  \/ ~ledger
  \/ ~source_col
  \/ processed = {} /\ series # {}

\* build_database(cs, rebuild) rebuilds in full if and only if asked to or
\* the store is in one of those conditions.
RebuildChoice ==
  \A cs \in CountryLists, rebuild \in BOOLEAN :
    BuildDatabase(cs, rebuild) => (mode' = "full" <=> (rebuild \/ MustRebuild))

\* C31 as stated: the choice between full rebuild and incremental update, and
\* an incremental update drops no table at all.
C31_Original ==
  /\ [][RebuildChoice]_vars
  /\ []((runNo > 0 /\ mode = "incremental") => lastStep.dropped = {})

\* C31: the choice between full rebuild and incremental update; an incremental
\* update drops none of the tables series, data and processed_files and keeps
\* the column source_file: the one table it drops, to build it again at once,
\* is stats.
C31_FullRebuildIff ==
  /\ [][RebuildChoice]_vars
  /\ []((runNo > 0 /\ mode = "incremental") =>
          /\ lastStep.dropped \subseteq {"stats"}
          /\ dbExists /\ ledger /\ source_col)

\* An incremental request has met a ledger that is empty beside a series
\* table with rows, and the run is a full rebuild forced by it.
C31_Witness ==
  /\ forced
  /\ mode = "full"
  /\ pre.ledger /\ pre.source_col
  /\ pre.processed = {} /\ pre.series # {}

\* C32: in every committed state each data row's series_id is the id of a
\* series row, and a data row of a series that a source file owns is a cell
\* of the version of that file loaded last: no row outlives its series, none
\* hangs on another series than the one it was loaded for.
C32_DataOwned ==
  \A r \in DOMAIN data :
    /\ \E x \in series : x.id = r.series_id
    /\ \A x \in series :
         (x.id = r.series_id /\ x.source_file \in Files) =>
           /\ snap[x.source_file].has
           /\ <<r.date, r.value>> \in ColumnRows(snap[x.source_file].content, x.name)

\* An incremental update has just torn down a removed file that owned series
\* with data rows, and the store still holds data rows of other files.
C32_Witness ==
  /\ lastStep.kind = "remove"
  /\ RowsOf(pre, lastStep.f).data # {}
  /\ RowsOf(Store, lastStep.f).series = {}
  /\ DOMAIN data # {}

\* Country c leaves the pending set only into the countries of a run that
\* begins at that step.
TakenByRun(c) ==
  (c \in changed_countries /\ c \notin changed_countries') =>
    \E t \in Timers : /\ tstate[t] = "cs1" /\ tstate'[t] = "running"
                      /\ c \in countries'[t]

\* C33: the callback of an event for country c puts c in the pending set; c
\* stays there until a run begins that includes it; and such a run does
\* begin: no event is lost.
C33_NoEventLost ==
  /\ [][\A c \in Countries : TakenByRun(c)]_vars
  /\ \A c \in Countries :
       /\ (evPc = "cs" /\ evCountry = c) ~> (c \in changed_countries \/ Horizon)
       /\ (c \in changed_countries) ~> (c \notin changed_countries \/ Horizon)

\* An event for jp was queued during a run for cn alone, and a later run that
\* includes jp has begun.
C33_Witness ==
  \E t \in Timers, u \in Timers :
    /\ "jp" \in queuedDuring[t]
    /\ "jp" \notin countries[t]
    /\ runSeq[u] > runSeq[t]
    /\ "jp" \in countries[u]
    /\ ~Horizon

\* C34: every run the handler starts is called with at least one country; a
\* Timer that an event has superseded starts none.
C34_NoEmptyRun == \A t \in Timers : runSeq[t] > 0 => countries[t] # {}

\* C35: the mtime of a ledger entry is the mtime of the version of the file
\* whose content the run loaded; a file rewritten while a run is in progress is
\* changed for the next run.
C35_MtimeOfLoadedVersion ==
  /\ \A e \in processed :
       ingested[e.filepath] # None => e.mtime = ingested[e.filepath]
  /\ AfterRun =>
       \A f \in Files :
         (disk[f].present /\ ingested[f] # None /\ disk[f].mtime # ingested[f])
           => IsChanged(f, <<CountryOf(f)>>)

\* The store a full rebuild leaves when every load succeeds: from the empty
\* tables, each file of the list in turn is loaded and entered in the ledger.
RECURSIVE FullRebuildOver(_, _)
FullRebuildOver(files, st) ==
  IF files = <<>> THEN st
  ELSE LET f == Head(files)
           r == LoadParquetFile(st, f, disk[f].content, "none", TRUE)
       IN  FullRebuildOver(Tail(files),
             IF r.count > 0
               THEN [r.st EXCEPT !.processed = @ \cup {Entry(f, disk[f].mtime, r.count, 0)}]
               ELSE r.st)

\* The series and data rows of the countries cs, without row ids.
RowsIn(st, cs) ==
  [series |-> {[name |-> s.name, frequency |-> s.frequency, country |-> s.country,
                source_file |-> s.source_file, min_date |-> s.min_date,
                max_date |-> s.max_date, count |-> s.count] :
               s \in {x \in st.series : x.country \in cs}},
   data |-> {[name |-> p[1].name, frequency |-> p[1].frequency, date |-> p[2].date,
              value |-> p[2].value, copies |-> st.data[p[2]]] :
             p \in {q \in st.series \X DOMAIN st.data :
                      q[1].country \in cs /\ q[1].id = q[2].series_id}}]

\* The store holds, for the selected countries, what a full rebuild over the
\* files now on disk would hold, and a series row for every column with a
\* value in one of these files.
Refines ==
  LET files == GetParquetFiles(syncCountries)
      cs == SeqToSet(syncCountries)
  IN  /\ RowsIn(Store, cs) = RowsIn(FullRebuildOver(files, EmptyStore), cs)
      /\ \A f \in SeqToSet(files), n \in Names :
           RowCount(disk[f].content, n) > 0 =>
             \E s \in series : s.name = n /\ s.frequency = FreqOf(f)

\* An incremental update in which no load raised returns.
IncrementalReturns ==
  /\ pc' = "idle"
  /\ pc = "work" \/ runNo' # runNo
  /\ mode' = "incremental"
  /\ failed' = {}

\* C36: when an incremental update in which every load succeeded returns, the
\* series and data rows of the selected countries are, row ids apart, those a
\* full rebuild over the files now on disk leaves, and every column with a
\* value in one of these files has its series row.
C36_IncrementalRefinesRebuild == [][IncrementalReturns => Refines']_vars

\* C37: a run of build_database for the countries cs leaves the series rows,
\* the data rows and the ledger entries of every other country as they were
\* when it started, on each of its paths.
C37_OtherCountriesUntouched ==
  runNo > 0 =>
    LET others == Countries \ SeqToSet(syncCountries)
    IN  /\ RowsIn(Store, others) = RowsIn(pre, others)
        /\ {e \in processed : e.country \in others}
             = {e \in pre.processed : e.country \in others}

\* C38: when the run of a Timer thread raises, _updating is true only while
\* some run is still in flight; the thread reaches the end of its finally
\* block; and every country queued during the run is taken by a run that
\* begins later, so that the next event finds the handler out of Updating.
C38_RaiseLeavesUpdating ==
  /\ [](updating => \E t \in Timers : InFlight(t))
  /\ \A t \in Timers :
       /\ (t \in raised) ~> (tstate[t] = "done" \/ Horizon)
       /\ \A c \in Countries :
            (t \in raised /\ c \in queuedDuring[t])
              ~> ((\E u \in Timers : runSeq[u] > runSeq[t] /\ c \in countries[u])
                  \/ Horizon)

\* A run raised, an event was queued during it, the follow-up run has taken
\* the queued country and ended, and _updating is false.
C38_Witness ==
  \E t \in raised, u \in Timers :
    /\ tstate[t] = "done"
    /\ queuedDuring[t] # {}
    /\ runSeq[u] > runSeq[t]
    /\ queuedDuring[t] \subseteq countries[u]
    /\ tstate[u] = "done"
    /\ ~updating
    /\ ~Horizon

\* C39: the watcher takes a file name for relevant exactly when the builder
\* would ingest a file of that name: get_frequency finds a frequency for it
\* and is_excluded does not exclude it.
C39_RelevantIffIngestible ==
  relevant.called =>
    (relevant.result <=> (GetFrequency(relevant.name) # "" /\ ~IsExcluded(relevant.name)))

\* C40: when a run has returned, the ledger has an entry for the source_file
\* of every series row, and the store is not in the state that
\* needs_migration takes for a store written before the ledger existed:
\* series rows and an empty ledger.
C40_SeriesHaveLedgerEntry ==
  AfterRun =>
    /\ \A s \in series : HasEntry(Store, s.source_file)
    /\ ~(processed = {} /\ series # {})

====
